---- MODULE Spec2Model ----
(***************************************************************************)
(* Listless: the message roster (email.go), the address normaliser and the *)
(* engine's delivery loop (engine.go).                                     *)
(*                                                                         *)
(* A Go string is a sequence of one-character strings, so that the         *)
(* normaliser and the parsers are computed character by character.  Go     *)
(* indexes from 0: GoSlice(s, i, j) is s[i:j], Index is strings.Index.     *)
(***************************************************************************)
EXTENDS Integers, Sequences, FiniteSets, TLC

\* ----------------------------------------------------------------------
\* Strings
\* ----------------------------------------------------------------------

UpperChars == <<"A","B","C","D","E","F","G","H","I","J","K","L","M",
                "N","O","P","Q","R","S","T","U","V","W","X","Y","Z">>

LowerChars == <<"a","b","c","d","e","f","g","h","i","j","k","l","m",
                "n","o","p","q","r","s","t","u","v","w","x","y","z">>

DigitChars == {"0","1","2","3","4","5","6","7","8","9"}

AlnumChars == {UpperChars[i] : i \in 1..26} \cup {LowerChars[i] : i \in 1..26} \cup DigitChars

\* Characters the validator's pattern admits in an atom of the local part (the
\* letters, the digits and some of its punctuation).
LocalAtomChars == AlnumChars \cup {"!", "#", "+", "=", "_", "-"}

\* s[i:j]
GoSlice(s, i, j) == SubSeq(s, i + 1, j)

\* s[i:]
GoFrom(s, i) == SubSeq(s, i + 1, Len(s))

\* strings.Index(s, c) for a one-character c: the first 0-based place, or -1.
Index(s, c) ==
    IF \E k \in 1..Len(s) : s[k] = c
    THEN (CHOOSE k \in 1..Len(s) : s[k] = c /\ \A j \in 1..(k - 1) : s[j] # c) - 1
    ELSE -1

\* strings.LastIndex(s, c) for a one-character c.
LastIndex(s, c) ==
    IF \E k \in 1..Len(s) : s[k] = c
    THEN (CHOOSE k \in 1..Len(s) : s[k] = c /\ \A j \in (k + 1)..Len(s) : s[j] # c) - 1
    ELSE -1

\* strings.Contains(s, c) for a one-character c.
Contains(s, c) == \E k \in 1..Len(s) : s[k] = c

ToLowerChar(c) ==
    IF \E i \in 1..26 : UpperChars[i] = c
    THEN LowerChars[CHOOSE i \in 1..26 : UpperChars[i] = c]
    ELSE c

\* strings.ToLower
ToLower(s) == [k \in 1..Len(s) |-> ToLowerChar(s[k])]

\* strings.TrimSpace (the only white space of the model is the blank)
TrimSpace(s) ==
    IF \A k \in 1..Len(s) : s[k] = " "
    THEN <<>>
    ELSE LET first == CHOOSE k \in 1..Len(s) : s[k] # " " /\ \A j \in 1..(k - 1) : s[j] = " "
             last  == CHOOSE k \in 1..Len(s) : s[k] # " " /\ \A j \in (k + 1)..Len(s) : s[j] = " "
         IN  SubSeq(s, first, last)

\* The pieces of s between the occurrences of c (strings.Split).
RECURSIVE SplitOn(_, _)
SplitOn(s, c) ==
    IF Index(s, c) = -1
    THEN <<s>>
    ELSE <<GoSlice(s, 0, Index(s, c))>> \o SplitOn(GoFrom(s, Index(s, c) + 1), c)

\* ----------------------------------------------------------------------
\* validator.IsValidEmail / validator.NormalizeEmail (github.com/dchest/validator),
\* as email.go uses them: an address is a local part of dot-separated atoms,
\* one "@", and a domain of at least two dot-separated labels.
\* ----------------------------------------------------------------------

IsValidEmail(s) ==
    /\ Len(s) <= 254
    /\ Cardinality({k \in 1..Len(s) : s[k] = "@"}) = 1
    /\ LET at     == Index(s, "@")
           atoms  == SplitOn(GoSlice(s, 0, at), ".")
           labels == SplitOn(GoFrom(s, at + 1), ".")
       IN  /\ \A i \in 1..Len(atoms) :
                  /\ atoms[i] # <<>>
                  /\ \A k \in 1..Len(atoms[i]) : atoms[i][k] \in LocalAtomChars
           /\ Len(labels) >= 2
           /\ \A i \in 1..Len(labels) :
                  /\ labels[i] # <<>>
                  /\ \A k \in 1..Len(labels[i]) : labels[i][k] \in AlnumChars

\* Trims, validates, and lower-cases the domain only; "" when not valid.
NormalizeEmail(s) ==
    LET t == TrimSpace(s)
    IN  IF ~IsValidEmail(t)
        THEN <<>>
        ELSE LET at == LastIndex(t, "@")
             IN  GoSlice(t, 0, at) \o <<"@">> \o ToLower(GoFrom(t, at + 1))

\* ----------------------------------------------------------------------
\* email.go: the normaliser and the parsers
\* ----------------------------------------------------------------------

\* normaliseEmail that leaves the case to the validator.
normaliseEmailAsValidator(email) == NormalizeEmail(email)

normaliseEmail(email) == NormalizeEmail(ToLower(email))

\* parseExpressiveEmail that returns what the brackets hold unlooked at.
parseExpressiveEmailUnchecked(emailLine0) ==
    LET emailLine == TrimSpace(emailLine0)
        normE     == normaliseEmail(emailLine)
        openBr    == LastIndex(emailLine, "<")
        closBr    == LastIndex(emailLine, ">")
    IN  IF normE # <<>>
        THEN [addr |-> normE, err |-> FALSE]
        ELSE IF ~(Contains(emailLine, "<") /\ Contains(emailLine, ">"))
        THEN [addr |-> emailLine, err |-> TRUE]
        ELSE IF ~(openBr < closBr)
        THEN [addr |-> emailLine, err |-> TRUE]
        ELSE [addr |-> normaliseEmail(GoSlice(emailLine, openBr + 1, closBr)),
              err |-> FALSE]

\* (string, error): err is TRUE for ErrEmailUnparseable.
parseExpressiveEmail(emailLine0) ==
    LET emailLine == TrimSpace(emailLine0)
        normE     == normaliseEmail(emailLine)
        openBr    == LastIndex(emailLine, "<")
        closBr    == LastIndex(emailLine, ">")
    IN  IF normE # <<>>
        THEN [addr |-> normE, err |-> FALSE]
        ELSE IF ~(Contains(emailLine, "<") /\ Contains(emailLine, ">"))
        THEN [addr |-> emailLine, err |-> TRUE]
        ELSE IF ~(openBr < closBr)
        THEN [addr |-> emailLine, err |-> TRUE]
        ELSE LET normed == normaliseEmail(GoSlice(emailLine, openBr + 1, closBr))
             IN  IF normed = <<>>
                 THEN [addr |-> emailLine, err |-> TRUE]
                 ELSE [addr |-> normed, err |-> FALSE]

\* The loop of parseMultiExpressiveEmails, one operator per step of its
\* body.  nextBracket is an index into entry[i:] that the code then uses as
\* an index into entry; when the comma it finds lies before i, the slice
\* entry[i:nextComma] has i > nextComma and the Go runtime panics (slice
\* bounds out of range).
RECURSIVE parseMultiLoop(_, _, _)

\* chunk := entry[i:nextComma]; entries = append(entries, chunk); i = nextComma + 1
parseMultiChunk(entry, i, entries, nextComma) ==
    IF nextComma < i
    THEN [panic |-> TRUE, entries |-> entries]
    ELSE parseMultiLoop(entry, nextComma + 1, Append(entries, GoSlice(entry, i, nextComma)))

\* distCommaAfterBracket := strings.Index(entry[nextBracket:], ",")
parseMultiComma(entry, i, entries, nextBracket, distCommaAfterBracket) ==
    IF distCommaAfterBracket = -1
    THEN [panic |-> FALSE, entries |-> Append(entries, GoFrom(entry, i))]
    ELSE parseMultiChunk(entry, i, entries, distCommaAfterBracket + nextBracket)

\* nextBracket := strings.Index(entry[i:], ">")
parseMultiBracket(entry, i, entries, nextBracket) ==
    IF nextBracket = -1
    THEN [panic |-> FALSE, entries |-> Append(entries, GoFrom(entry, i))]
    ELSE parseMultiComma(entry, i, entries, nextBracket,
                         Index(GoFrom(entry, nextBracket), ","))

parseMultiLoop(entry, i, entries) ==
    IF ~(i < Len(entry))
    THEN [panic |-> FALSE, entries |-> entries]
    ELSE parseMultiBracket(entry, i, entries, Index(GoFrom(entry, i), ">"))

parseMultiExpressiveEmails(entry) ==
    IF IsValidEmail(entry)
    THEN [panic |-> FALSE, entries |-> <<entry>>]
    ELSE IF ~(Contains(entry, ">") /\ Contains(entry, ","))
    THEN [panic |-> FALSE, entries |-> <<entry>>]
    ELSE parseMultiLoop(entry, 0, <<>>)

\* ----------------------------------------------------------------------
\* email.go: the Email wrapper.  A message is a record: the To, Cc and Bcc
\* sequences, the set inRecipientLists, From, Sender, and Headers, the
\* values of the message's "sent-from-listless" header (a MIMEHeader maps a
\* key to a sequence of values).
\* ----------------------------------------------------------------------

\* em.Headers.Get(key): the first value of the key, "" without one.
GetHeader(m) == IF m.Headers = <<>> THEN <<>> ELSE m.Headers[1]

\* em.Headers.Add(key, value)
AddHeader(m, value) == [m EXCEPT !.Headers = Append(@, value)]

\* em.Headers.Del(key)
DelHeader(m) == [m EXCEPT !.Headers = <<>>]

\* em.Headers.Set(key, value)
SetHeader(m, value) == [m EXCEPT !.Headers = <<value>>]

WrapEmail(e) ==
    [To |-> e.To, Cc |-> e.Cc, Bcc |-> e.Bcc, From |-> e.From, Headers |-> e.Headers,
     inRecipientLists |-> {},
     Sender |-> normaliseEmail(parseExpressiveEmail(e.From).addr)]

isRecipient(m, email) == email \in m.inRecipientLists

addRecipient(m, email) == [m EXCEPT !.inRecipientLists = @ \cup {email}]

remRecipient(m, email) == [m EXCEPT !.inRecipientLists = @ \ {email}]

clearRecipients(m) == [m EXCEPT !.inRecipientLists = {}]

AddToRecipient(m, email0) ==
    LET email == normaliseEmail(email0)
    IN  IF email = <<>>
        THEN m
        ELSE IF ~isRecipient(m, email)
        THEN addRecipient([m EXCEPT !.To = Append(@, email)], email)
        ELSE m

\* AddCcRecipient without the look at the roster.
AddCcRecipientUnchecked(m, email0) ==
    LET email == normaliseEmail(email0)
    IN  IF email = <<>>
        THEN m
        ELSE addRecipient([m EXCEPT !.Cc = Append(@, email)], email)

AddCcRecipient(m, email0) ==
    LET email == normaliseEmail(email0)
    IN  IF email = <<>>
        THEN m
        ELSE IF ~isRecipient(m, email)
        THEN addRecipient([m EXCEPT !.Cc = Append(@, email)], email)
        ELSE m

\* AddBccRecipient with the validator's normal form alone, which keeps
\* the case of the local part.
AddBccRecipientKeepsCase(m, email0) ==
    LET email == NormalizeEmail(email0)
    IN  IF email = <<>>
        THEN m
        ELSE IF ~isRecipient(m, email)
        THEN addRecipient([m EXCEPT !.Bcc = Append(@, email)], email)
        ELSE m

AddBccRecipient(m, email0) ==
    LET email == normaliseEmail(email0)
    IN  IF email = <<>>
        THEN m
        ELSE IF ~isRecipient(m, email)
        THEN addRecipient([m EXCEPT !.Bcc = Append(@, email)], email)
        ELSE m

AddRecipient(m, email) == AddBccRecipient(m, email)

ClearRecipients(m) == clearRecipients([m EXCEPT !.To = <<>>, !.Cc = <<>>, !.Bcc = <<>>])

\* The elements of list other than email, in order.
Without(list, email) == SelectSeq(list, LAMBDA e : e # email)

Holds(list, email) == \E i \in 1..Len(list) : list[i] = email

RemoveRecipient(m, email0) ==
    LET email     == normaliseEmail(email0)
        removedTo == Holds(m.To, email)
        removedCc == removedTo \/ Holds(m.Cc, email)
    IN  IF email \notin m.inRecipientLists
        THEN m
        ELSE remRecipient(
                 [m EXCEPT !.To  = Without(@, email),
                           !.Cc  = IF ~removedTo THEN Without(@, email) ELSE @,
                           !.Bcc = IF ~removedCc THEN Without(@, email) ELSE @],
                 email)

\* The inner loop of normaliseEmailSlice over the pieces of one entry: r is
\* parseExpressiveEmail of the first piece.
RECURSIVE normaliseEntries(_, _, _)

normaliseEntry(multiEntries, newField, seen, r) ==
    IF r.err
    THEN normaliseEntries(Tail(multiEntries), newField, seen)
    ELSE IF r.addr \in seen
    THEN normaliseEntries(Tail(multiEntries), newField, seen)
    ELSE normaliseEntries(Tail(multiEntries), Append(newField, r.addr), seen \cup {r.addr})

normaliseEntries(multiEntries, newField, seen) ==
    IF multiEntries = <<>>
    THEN [newField |-> newField, seen |-> seen]
    ELSE normaliseEntry(multiEntries, newField, seen,
                        parseExpressiveEmail(Head(multiEntries)))

\* The outer loop of normaliseEmailSlice over the entries of the field:
\* multi is parseMultiExpressiveEmails of the first entry.
RECURSIVE normaliseSliceLoop(_, _, _)

normaliseSliceRest(emailSlice, r) == normaliseSliceLoop(Tail(emailSlice), r.newField, r.seen)

normaliseSliceEntry(emailSlice, newField, seen, multi) ==
    IF multi.panic
    THEN [panic |-> TRUE, newField |-> newField, seen |-> seen]
    ELSE normaliseSliceRest(emailSlice, normaliseEntries(multi.entries, newField, seen))

normaliseSliceLoop(emailSlice, newField, seen) ==
    IF emailSlice = <<>>
    THEN [panic |-> FALSE, newField |-> newField, seen |-> seen]
    ELSE normaliseSliceEntry(emailSlice, newField, seen,
                             parseMultiExpressiveEmails(Head(emailSlice)))

\* [panic, isNil, newField, seen].  isNil: the nil slice returned for an
\* empty field (the caller then leaves the field alone); seen is
\* inRecipientLists as the call leaves it.
normaliseSliceResult(r) ==
    [panic |-> r.panic, isNil |-> FALSE, newField |-> r.newField, seen |-> r.seen]

normaliseEmailSlice(seen, emailSlice) ==
    IF Len(emailSlice) = 0
    THEN [panic |-> FALSE, isNil |-> TRUE, newField |-> <<>>, seen |-> seen]
    ELSE normaliseSliceResult(normaliseSliceLoop(emailSlice, <<>>, seen))

\* NormaliseRecipients, field by field.  The result is [panic, em]: em is
\* the message as the call leaves it, also when it panics.  r is the result
\* of normaliseEmailSlice for the field.
StoreTo(m, r) ==
    [m EXCEPT !.inRecipientLists = r.seen,
              !.To = IF ~r.isNil /\ ~r.panic THEN r.newField ELSE @]

StoreCc(m, r) ==
    [m EXCEPT !.inRecipientLists = r.seen,
              !.Cc = IF ~r.isNil /\ ~r.panic THEN r.newField ELSE @]

StoreBcc(m, r) ==
    [m EXCEPT !.inRecipientLists = r.seen,
              !.Bcc = IF ~r.isNil /\ ~r.panic THEN r.newField ELSE @]

NormaliseBcc(m) ==
    [panic |-> normaliseEmailSlice(m.inRecipientLists, m.Bcc).panic,
     em    |-> StoreBcc(m, normaliseEmailSlice(m.inRecipientLists, m.Bcc))]

NormaliseCc(m) ==
    IF normaliseEmailSlice(m.inRecipientLists, m.Cc).panic
    THEN [panic |-> TRUE, em |-> StoreCc(m, normaliseEmailSlice(m.inRecipientLists, m.Cc))]
    ELSE NormaliseBcc(StoreCc(m, normaliseEmailSlice(m.inRecipientLists, m.Cc)))

NormaliseRecipients(m) ==
    IF normaliseEmailSlice(m.inRecipientLists, m.To).panic
    THEN [panic |-> TRUE, em |-> StoreTo(m, normaliseEmailSlice(m.inRecipientLists, m.To))]
    ELSE NormaliseCc(StoreTo(m, normaliseEmailSlice(m.inRecipientLists, m.To)))

\* ----------------------------------------------------------------------
\* Sample strings: addresses, header lines and arguments
\* ----------------------------------------------------------------------

AddrA == <<"a","@","x",".","i","o">>

AddrAUpper == <<"A","@","x",".","i","o">>

AddrB == <<"b","@","x",".","i","o">>

AddrBSpaced == <<" ","b","@","x",".","i","o"," ">>

\* "Al <a@x.io>"
ExprA == <<"A","l"," ","<","a","@","x",".","i","o",">">>

\* "bad"
Unparseable == <<"b","a","d">>

\* "A <a@x.io>, Bob <b@x.io>": the second item is longer than the first.
MultiLonger == <<"A"," ","<","a","@","x",".","i","o",">",","," ",
                 "B","o","b"," ","<","b","@","x",".","i","o",">">>

\* "Al <a@x.io>, Bo <b@x.io>": two items of the same length.
MultiEqual == <<"A","l"," ","<","a","@","x",".","i","o",">",","," ",
                "B","o"," ","<","b","@","x",".","i","o",">">>

\* Config.ListAddress, and the address of some other list.
ListAddress == <<"l","@","x",".","i","o">>

OtherList == <<"o","@","y",".","i","o">>

\* The arguments a caller of the roster methods passes.
AddrArgs == {AddrA, AddrAUpper, AddrB, Unparseable}

\* The arguments the script of the engine passes to the roster methods, and
\* the values it gives to the sent-from-listless header.
ScriptAddrArgs == {AddrB, ListAddress}

HeaderArgs == {OtherList}

\* A parsed mail (email.Email) as email.NewEmailFromReader returns it: every
\* value of a To, Cc or Bcc header line is one entry of the field.
Mail(to, cc, bcc, from, headers) ==
    [To |-> to, Cc |-> cc, Bcc |-> bcc, From |-> from, Headers |-> headers]

NoMail == Mail(<<>>, <<>>, <<>>, <<>>, <<>>)

\* The mails a message is wrapped from when its roster methods are exercised.
SampleMails ==
    { NoMail,
      Mail(<<ListAddress>>, <<>>, <<>>, ExprA, <<>>),
      Mail(<<ExprA, AddrAUpper>>, <<AddrA, AddrBSpaced>>, <<AddrB>>, AddrB, <<>>),
      Mail(<<Unparseable>>, <<AddrB>>, <<>>, ExprA, <<OtherList>>),
      Mail(<<MultiLonger>>, <<>>, <<>>, AddrA, <<>>),
      Mail(<<ListAddress>>, <<MultiEqual>>, <<>>, AddrA, <<>>) }

\* What arrives in the inbox: [mail, parses]; parses is FALSE for bytes
\* email.NewEmailFromReader rejects.
InboundMails ==
    { [mail |-> Mail(<<ListAddress>>, <<AddrB>>, <<>>, ExprA, <<>>), parses |-> TRUE],
      [mail |-> NoMail, parses |-> FALSE],
      [mail |-> Mail(<<ListAddress>>, <<>>, <<>>, AddrB, <<ListAddress>>), parses |-> TRUE],
      [mail |-> Mail(<<ListAddress>>, <<>>, <<>>, AddrA, <<OtherList>>), parses |-> TRUE],
      [mail |-> Mail(<<MultiEqual>>, <<>>, <<>>, AddrA, <<>>), parses |-> TRUE] }

\* The second and third values eventLoop returns, by Lua type.
OkValues == {"true", "false", "nil"}

ErrValues == {"nil", "string", "number"}

\* ----------------------------------------------------------------------
\* Bounds
\* ----------------------------------------------------------------------

\* The most mails that arrive in the inbox in a run.
MaxArrivals == 2

\* The most calls one run of the script makes on the message.
MaxScriptOps == 1

\* ----------------------------------------------------------------------
\* email.go: Send
\* ----------------------------------------------------------------------

\* nuexcludeEmails: the normalised forms of excludeEmails, without "".
NormalisedExcludes(excludeEmails) ==
    {normaliseEmail(e) : e \in excludeEmails} \ {<<>>}

\* Send without the test of the keys against the excluded addresses.
SendToWholeRoster(m, excludeEmails) ==
    [to  |-> m.inRecipientLists,
     err |-> \/ \E k \in m.inRecipientLists : ~IsValidEmail(k)
             \/ m.From = <<>>
             \/ m.inRecipientLists = {}
             \/ parseExpressiveEmail(m.From).err]

\* Send up to the call of smtp.SendMail: [to, err].  to is the delivery
\* list; err is TRUE when Send returns an error before submitting.
\* mail.ParseAddress accepts what parseExpressiveEmail accepts.
Send(m, excludeEmails) ==
    LET to == m.inRecipientLists \ NormalisedExcludes(excludeEmails)
    IN  [to  |-> to,
         err |-> \/ \E k \in to : ~IsValidEmail(k)
                 \/ m.From = <<>>
                 \/ to = {}
                 \/ parseExpressiveEmail(m.From).err]

\* ----------------------------------------------------------------------
\* engine.go: ProcessMail's reading of the values eventLoop returned
\* ----------------------------------------------------------------------

\* ProcessMail without its last test, of okv.String() against "true".
ProcessMailResultAnyBoolean(okv, errmsg) ==
    IF ~(errmsg = "string" \/ errmsg = "nil")
    THEN [ok |-> FALSE, err |-> "ErrErrValNotStringOrNil"]
    ELSE IF ~(okv = "true" \/ okv = "false")
    THEN [ok |-> FALSE, err |-> "ErrOkNotBoolean"]
    ELSE [ok |-> TRUE, err |-> "nil"]

\* (ok, err) of ProcessMail once eventLoop has returned okv and errmsg.
ProcessMailResult(okv, errmsg) ==
    IF ~(errmsg = "string" \/ errmsg = "nil")
    THEN [ok |-> FALSE, err |-> "ErrErrValNotStringOrNil"]
    ELSE IF ~(okv = "true" \/ okv = "false")
    THEN [ok |-> FALSE, err |-> "ErrOkNotBoolean"]
    ELSE IF ~(okv = "true")
    THEN [ok |-> FALSE, err |-> "nil"]
    ELSE [ok |-> TRUE, err |-> "nil"]

\* DeliveryLoop with the one sleep, whatever n is.
SleepAfterAlwaysPoll(n, err) == "PollFrequency"

\* The sleep DeliveryLoop takes after a round that delivered n with error err.
SleepAfter(n, err) ==
    IF err THEN "PollFrequency"
    ELSE IF n > 0 THEN "MessageFrequency"
    ELSE "PollFrequency"

\* strings.Join(list, ", ")
RECURSIVE JoinComma(_)
JoinComma(list) ==
    IF list = <<>> THEN <<>>
    ELSE IF Len(list) = 1 THEN list[1]
    ELSE list[1] \o <<",", " ">> \o JoinComma(Tail(list))

\* A submitted message as the inbox gets it back: Bytes() writes To and Cc
\* as one comma-joined line each and no Bcc, and the reader trims the blanks
\* around a header value.
Reparsed(m) ==
    Mail(IF m.To = <<>> THEN <<>> ELSE <<JoinComma(m.To)>>,
         IF m.Cc = <<>> THEN <<>> ELSE <<JoinComma(m.Cc)>>,
         <<>>,
         m.From,
         [i \in 1..Len(m.Headers) |-> TrimSpace(m.Headers[i])])

\* ----------------------------------------------------------------------
\* database.go: the members bucket and its subscribers
\* ----------------------------------------------------------------------

\* A byte that is no UTF-8, and the character json.Marshal writes for it.
InvalidByte == "xFF"

ReplacementChar == "uFFFD"

\* "Al", and a name with a byte that is no UTF-8.
NameAl == <<"A", "l">>

NameRaw == <<"A", InvalidByte>>

\* The addresses a caller passes to the methods of the database.
DbAddrArgs == {AddrA, AddrAUpper, AddrB, Unparseable}

\* The keys these addresses are stored under, in the byte order in which
\* bolt iterates a bucket.
BucketKeys == <<AddrA, AddrB>>

\* What a caller passes to CreateSubscriber besides the address:
\* <<usrname, allowedpost, moderator>>.
MemberArgs == {<<NameAl, TRUE, FALSE>>, <<NameRaw, FALSE, TRUE>>}

\* time.Hour, and the times of a call (time.Now()), in seconds.
Hour == 3600

ClockTimes == {1800, 3601}

\* Time.Round(d): the nearest multiple of d, the halfway value going up.
Round(t, d) ==
    IF (t % d) + (t % d) < d THEN t - (t % d) ELSE t + d - (t % d)

MemberMeta(joindate, moderator, allowedpost, name, email) ==
    [Joindate |-> joindate, Moderator |-> moderator, AllowedPost |-> allowedpost,
     Name |-> name, Email |-> email]

\* MemberMeta{}, which also stands for the nil *MemberMeta.
NoMeta == MemberMeta(0, FALSE, FALSE, <<>>, <<>>)

\* CreateSubscriber at the time now.
CreateSubscriber(usremail, usrname, allowedpost, moderator, now) ==
    MemberMeta(Round(now, Hour), moderator, allowedpost, usrname, normaliseEmail(usremail))

\* The member objects a caller can hold from CreateSubscriber.
Metas ==
    {CreateSubscriber(e, a[1], a[2], a[3], t) :
        e \in DbAddrArgs, a \in MemberArgs, t \in ClockTimes}

\* A string as json.Marshal writes it and json.Unmarshal reads it back.
jsonString(str) ==
    [i \in 1..Len(str) |-> IF str[i] = InvalidByte THEN ReplacementChar ELSE str[i]]

\* json.Marshal of a member followed by json.Unmarshal of the entry.
jsonRoundTrip(meta) ==
    [meta EXCEPT !.Name = jsonString(@), !.Email = jsonString(@)]

\* A bucket is a function from its keys to its entries.
EmptyBucket == [k \in {} |-> NoMeta]

Put(bucket, key, entry) ==
    [k \in DOMAIN bucket \cup {key} |-> IF k = key THEN entry ELSE bucket[k]]

Delete(bucket, key) == [k \in DOMAIN bucket \ {key} |-> bucket[k]]

\* GetSubscriber with one error for every failure.
GetSubscriberOneError(bucket, email0) ==
    LET email == normaliseEmail(email0)
    IN  IF email = <<>> \/ email \notin DOMAIN bucket
        THEN [meta |-> NoMeta, err |-> "ErrInvalidEmail"]
        ELSE [meta |-> bucket[email], err |-> "nil"]

\* GetSubscriber: [meta, err].
GetSubscriber(bucket, email0) ==
    LET email == normaliseEmail(email0)
    IN  IF email = <<>>
        THEN [meta |-> NoMeta, err |-> "ErrInvalidEmail"]
        ELSE IF email \notin DOMAIN bucket
        THEN [meta |-> NoMeta, err |-> "ErrMemberEntryNotFound"]
        ELSE [meta |-> bucket[email], err |-> "nil"]

\* UpdateSubscriber that appends to the bucket and never overwrites.
UpdateSubscriberKeepsFirst(bucket, usremail0, meta) ==
    LET usremail == normaliseEmail(usremail0)
    IN  IF usremail = <<>>
        THEN [bucket |-> bucket, err |-> "ErrInvalidEmail"]
        ELSE IF usremail \in DOMAIN bucket
        THEN [bucket |-> bucket, err |-> "nil"]
        ELSE [bucket |-> Put(bucket, usremail, jsonRoundTrip(meta)), err |-> "nil"]

\* UpdateSubscriber: [bucket, err].
UpdateSubscriber(bucket, usremail0, meta) ==
    LET usremail == normaliseEmail(usremail0)
    IN  IF usremail = <<>>
        THEN [bucket |-> bucket, err |-> "ErrInvalidEmail"]
        ELSE [bucket |-> Put(bucket, usremail, jsonRoundTrip(meta)), err |-> "nil"]

\* DelSubscriber that fails for an address without an entry.
DelSubscriberMustExist(bucket, email0) ==
    LET email == normaliseEmail(email0)
    IN  IF email = <<>>
        THEN [bucket |-> bucket, err |-> "ErrInvalidEmail"]
        ELSE IF email \notin DOMAIN bucket
        THEN [bucket |-> bucket, err |-> "ErrMemberEntryNotFound"]
        ELSE [bucket |-> Delete(bucket, email), err |-> "nil"]

\* DelSubscriber: [bucket, err].
DelSubscriber(bucket, email0) ==
    LET email == normaliseEmail(email0)
    IN  IF email = <<>>
        THEN [bucket |-> bucket, err |-> "ErrInvalidEmail"]
        ELSE [bucket |-> Delete(bucket, email), err |-> "nil"]

\* IsModerator that reads the other flag.
IsModeratorReadsAllowedPost(bucket, email) ==
    LET sub == GetSubscriber(bucket, email)
    IN  IF sub.err # "nil" THEN FALSE ELSE sub.meta.AllowedPost

IsModerator(bucket, email) ==
    LET sub == GetSubscriber(bucket, email)
    IN  IF sub.err # "nil" THEN FALSE ELSE sub.meta.Moderator

IsAllowedPost(bucket, email) ==
    LET sub == GetSubscriber(bucket, email)
    IN  IF sub.err # "nil" THEN FALSE ELSE sub.meta.AllowedPost

RECURSIVE goGetAllSubscribersFrom(_, _, _)

\* goGetAllSubscribers: the Email field of every entry, or of every
\* moderator's, in the order of the keys.
goGetAllSubscribersFrom(bucket, keys, modsOnly) ==
    IF keys = <<>> THEN <<>>
    ELSE IF Head(keys) \notin DOMAIN bucket
    THEN goGetAllSubscribersFrom(bucket, Tail(keys), modsOnly)
    ELSE IF modsOnly /\ ~bucket[Head(keys)].Moderator
    THEN goGetAllSubscribersFrom(bucket, Tail(keys), modsOnly)
    ELSE <<bucket[Head(keys)].Email>> \o goGetAllSubscribersFrom(bucket, Tail(keys), modsOnly)

goGetAllSubscribers(bucket, modsOnly) ==
    goGetAllSubscribersFrom(bucket, BucketKeys, modsOnly)

\* ----------------------------------------------------------------------
\* example_eventloop.lua: the eventLoop that is shipped
\* ----------------------------------------------------------------------

RECURSIVE goAddRecipientList(_, _)

\* AddRecipientList: AddRecipient for every element of the table.
goAddRecipientList(m, emails) ==
    IF emails = <<>> THEN m
    ELSE goAddRecipientList(AddRecipient(m, Head(emails)), Tail(emails))

\* listifyMessage without its ClearRecipients.
listifyMessageKeepsRecipients(m, bucket) ==
    goAddRecipientList(AddToRecipient(m, ListAddress), goGetAllSubscribers(bucket, FALSE))

\* listifyMessage; the reply-to header it sets is not a header of the model.
listifyMessage(m, bucket) ==
    goAddRecipientList(AddToRecipient(ClearRecipients(m), ListAddress),
                       goGetAllSubscribers(bucket, FALSE))

\* The members a list is set up with: two who may post and a moderator
\* who may not.
ListMetas ==
    {CreateSubscriber(AddrA, NameAl, TRUE, FALSE, 3601),
     CreateSubscriber(AddrB, NameAl, TRUE, FALSE, 3601),
     CreateSubscriber(AddrB, NameRaw, FALSE, TRUE, 3601)}

\* The buckets two calls of UpdateSubscriber leave.
ListBuckets ==
    {UpdateSubscriber(UpdateSubscriber(EmptyBucket, k1, m1).bucket, k2, m2).bucket :
        k1 \in {AddrA}, k2 \in {AddrA, AddrB}, m1 \in ListMetas, m2 \in ListMetas}

\* The mails that arrive for the list: from "Al <a@x.io>", and from b@x.io
\* with a copy to a@x.io.
ListMails ==
    { [mail |-> Mail(<<ListAddress>>, <<>>, <<>>, ExprA, <<>>), parses |-> TRUE],
      [mail |-> Mail(<<ListAddress>>, <<AddrA>>, <<>>, AddrB, <<>>), parses |-> TRUE] }

\* database_keyvaluestores.go: the key:value stores
\* ----------------------------------------------------------------------

\* The names a script opens a store under, the keys and the values it uses,
\* and the variables it keeps its ListlessKVStore objects in.
KVStoreNames == {"metrics", ""}

KVKeyArgs == {"", "j", "k"}

KVValues == {"", "v"}

Handles == {"h1", "h2"}

\* The keys in the order of bolt, which is the order of their bytes.
KeyOrder == <<"", "j", "k">>

\* The kvstores bucket with no bucket in it, and a bucket with no key.
NoBuckets == [name \in {} |-> [k \in {} |-> ""]]

EmptyKV == [k \in {} |-> ""]

\* A variable of the script that holds no ListlessKVStore yet.
NoHandle == [open |-> FALSE, destroyed |-> FALSE, BucketName |-> ""]

\* What a call on a ListlessKVStore returned: value is what Retrieve
\* returned, keys what Keys pushed, panic whether the call ended in a
\* nil pointer dereference instead of returning.
KVReturned(op, h, key, arg, value, keys, panic) ==
    [op |-> op, handle |-> h, key |-> key, arg |-> arg, value |-> value,
     keys |-> keys, panic |-> panic]

NoKVCall == KVReturned("", "", "", "", "", <<>>, FALSE)

\* kvbucket.CreateBucketIfNotExists: ErrBucketNameRequired for the empty
\* name, which KVStore does not look at.
CreateBucketIfNotExists(store, name) ==
    IF name = "" \/ name \in DOMAIN store THEN store
    ELSE [b \in DOMAIN store \cup {name} |-> IF b = name THEN EmptyKV ELSE store[b]]

\* kvbucket.Bucket returns nil for a name that has no bucket; a method
\* called on this nil *bolt.Bucket dereferences it.
IsNilBucket(store, kv) == kv.BucketName \notin DOMAIN store

\* Store, for a store and a ListlessKVStore: the store it leaves.
\* bucket.Put returns ErrKeyRequired for the empty key.
Store(store, kv, key, value) ==
    IF kv.destroyed THEN [store |-> store, panic |-> FALSE]
    ELSE IF IsNilBucket(store, kv) THEN [store |-> store, panic |-> TRUE]
    ELSE IF key = "" THEN [store |-> store, panic |-> FALSE]
    ELSE [store |-> [store EXCEPT ![kv.BucketName] =
                        [k \in DOMAIN @ \cup {key} |-> IF k = key THEN value ELSE @[k]]],
          panic |-> FALSE]

\* Retrieve: string(nil) is "" for a key that is absent.
Retrieve(store, kv, key) ==
    IF kv.destroyed THEN [value |-> "", panic |-> FALSE]
    ELSE IF IsNilBucket(store, kv) THEN [value |-> "", panic |-> TRUE]
    ELSE IF key \in DOMAIN store[kv.BucketName]
    THEN [value |-> store[kv.BucketName][key], panic |-> FALSE]
    ELSE [value |-> "", panic |-> FALSE]

\* Delete of the ListlessKVStore.
KVDelete(store, kv, key) ==
    IF kv.destroyed THEN [store |-> store, panic |-> FALSE]
    ELSE IF IsNilBucket(store, kv) THEN [store |-> store, panic |-> TRUE]
    ELSE [store |-> [store EXCEPT ![kv.BucketName] =
                        [k \in DOMAIN @ \ {key} |-> @[k]]],
          panic |-> FALSE]

\* Keys: it does not look at kv.destroyed.
Keys(store, kv) ==
    IF IsNilBucket(store, kv) THEN [keys |-> <<>>, panic |-> TRUE]
    ELSE [keys |-> SelectSeq(KeyOrder, LAMBDA k : k \in DOMAIN store[kv.BucketName]),
          panic |-> FALSE]

\* Destroy: kvbucket.DeleteBucket, ErrBucketNotFound when there is none.
Destroy(store, kv) ==
    IF IsNilBucket(store, kv) THEN store
    ELSE [b \in DOMAIN store \ {kv.BucketName} |-> store[b]]

\* database_transactions.go: the transactions
\* ----------------------------------------------------------------------

\* The secrets a script ships, the senders of the mails that carry them,
\* and the last time of the clock.
Secrets == {"s", "t"}

TxSenders == {AddrA, AddrB}

MaxClock == 3

\* A MailTransaction; Expires is a time of the clock.
MailTransaction(permitted, persists, refCode, expires, scriptName, scriptHook) ==
    [Permitted |-> permitted, Persists |-> persists, RefCode |-> refCode,
     Expires |-> expires, ScriptName |-> scriptName, ScriptHook |-> scriptHook]

\* The nil *MailTransaction.
NoTransaction == MailTransaction(<<>>, FALSE, "", 0, "", "")

\* The transactions a script builds.
TxArgs ==
    {MailTransaction(p, persists, "r", e, names[1], names[2]) :
        p \in {<<>>, <<AddrAUpper>>}, persists \in BOOLEAN, e \in {1, 2},
        names \in {<<"script", "hook">>, <<"", "hook">>, <<"script", "">>}}

\* The transactions bucket with no entry.
NoTransactions == [h \in {} |-> NoTransaction]

\* sha256.Sum256 of the secret: 32 bytes that are not the secret, and
\* different ones for different secrets.
hashSecret(secret) == <<"sha256", secret>>

\* json.Marshal of a MailTransaction: the entry of the bucket.
jTransaction(trans) == [json |-> trans]

\* time.Now().After(trans.Expires)
isExpired(trans, now) == now > trans.Expires

\* prepare accepting a transaction that has no script to call.
prepareWithoutFields(trans, now) ==
    IF isExpired(trans, now) THEN [trans |-> trans, err |-> "ErrExpiredTransaction"]
    ELSE [trans |-> [trans EXCEPT !.Permitted =
                        [i \in DOMAIN @ |-> normaliseEmail(@[i])]],
          err |-> "nil"]

\* prepare: the error, and the transaction with its Permitted normalised.
prepare(trans, now) ==
    IF isExpired(trans, now) THEN [trans |-> trans, err |-> "ErrExpiredTransaction"]
    ELSE IF trans.ScriptHook = "" \/ trans.ScriptName = ""
    THEN [trans |-> trans, err |-> "ErrTransactionNotReady"]
    ELSE [trans |-> [trans EXCEPT !.Permitted =
                        [i \in DOMAIN @ |-> normaliseEmail(@[i])]],
          err |-> "nil"]

isPermitted(trans, email) ==
    \E i \in DOMAIN trans.Permitted : normaliseEmail(email) = trans.Permitted[i]

\* Validate, for the Sender of the email.
Validate(trans, sender, now) ==
    IF isExpired(trans, now) THEN FALSE
    ELSE isPermitted(trans, sender)

\* GetTransaction: trans, its named result, is nil when json.Unmarshal is
\* given it, and json.Unmarshal returns an InvalidUnmarshalError for nil.
GetTransaction(bucket, secret) ==
    IF hashSecret(secret) \notin DOMAIN bucket
    THEN [trans |-> NoTransaction, err |-> "ErrTransactionNotFound"]
    ELSE [trans |-> NoTransaction, err |-> "InvalidUnmarshalError"]

\* PutTransaction: the bucket it leaves and its error.
PutTransaction(bucket, secret, newTransaction, now) ==
    LET p == prepare(newTransaction, now)
    IN  IF p.err # "nil" THEN [bucket |-> bucket, err |-> p.err]
        ELSE [bucket |-> Put(bucket, hashSecret(secret), jTransaction(p.trans)),
              err |-> "nil"]

\* TriggerTransaction as the specification describes it: look the
\* transaction up, check it and the sender, call the hook, and delete the
\* transaction when it does not persist.  hook says the hook was called.
TriggerTransaction(bucket, secret, sender, now) ==
    LET got == GetTransaction(bucket, secret)
    IN  IF got.err # "nil" THEN [bucket |-> bucket, err |-> got.err, hook |-> FALSE]
        ELSE IF isExpired(got.trans, now)
        THEN [bucket |-> bucket, err |-> "ErrExpiredTransaction", hook |-> FALSE]
        ELSE IF ~(got.trans.Permitted = <<>> \/ isPermitted(got.trans, sender))
        THEN [bucket |-> bucket, err |-> "NotPermitted", hook |-> FALSE]
        ELSE [bucket |-> IF got.trans.Persists THEN bucket
                         ELSE Delete(bucket, hashSecret(secret)),
              err |-> "nil", hook |-> TRUE]

\* The method whitelists of the Lua sandboxes
\* ----------------------------------------------------------------------

\* The exported methods of *ListlessDB, and those of the *bolt.DB it embeds
\* together with the field that holds it.
ListlessDBMethods ==
    {"IsModerator", "IsAllowedPost", "CreateSubscriber", "UpdateSubscriber",
     "GetSubscriber", "DelSubscriber", "GetAllSubscribers", "KVStore",
     "GetTransaction", "PutTransaction", "PrivilegedDBWrapper", "ModeratorDBWrapper"}

BoltDBMethods == {"DB", "Update", "View", "Batch", "Begin", "Close"}

PrivilegedDBPermittedMethods ==
    {"IsModerator", "IsAllowedPost", "CreateSubscriber", "UpdateSubscriber",
     "DelSubscriber", "GetAllSubscribers", "KVStore"}

ModeratorDBPermittedMethods ==
    {"IsModerator", "IsAllowedPost", "CreateSubscriber", "UpdateSubscriber",
     "GetSubscriber", "DelSubscriber"}

ListlessKVStorePermittedMethods ==
    {"Store", "Retrieve", "Delete", "Keys", "Destroy", "BucketName"}

\* The types of the values a script can hold.
LuarTypes ==
    {"ListlessDB", "PrivilegedDBWrapper", "ModeratorDBWrapper", "ListlessKVStore",
     "MemberMeta", "bolt.DB"}

\* The exported fields and methods of a type, which luar offers when the
\* metatable of the type has no whitelist.
Exported(type) ==
    IF type = "ListlessDB" THEN ListlessDBMethods \cup BoltDBMethods
    ELSE IF type \in {"PrivilegedDBWrapper", "ModeratorDBWrapper"}
    THEN ListlessDBMethods \cup BoltDBMethods \cup {"ListlessDB"}
    ELSE IF type = "ListlessKVStore"
    THEN {"Store", "Retrieve", "Delete", "Keys", "Destroy", "BucketName"}
    ELSE IF type = "MemberMeta"
    THEN {"Joindate", "Moderator", "AllowedPost", "Name", "Email"}
    ELSE BoltDBMethods \ {"DB"}

\* applyLuarWhitelists: the types whose metatable gets a whitelist.
Whitelisted == {"ListlessDB", "PrivilegedDBWrapper", "ModeratorDBWrapper", "ListlessKVStore"}

\* applyLuarWhitelists with the list of the privileged wrapper given to
\* the moderators' wrapper too.
WhitelistOneForAll(type) ==
    IF type = "ListlessDB" THEN {}
    ELSE IF type \in {"PrivilegedDBWrapper", "ModeratorDBWrapper"}
    THEN PrivilegedDBPermittedMethods
    ELSE ListlessKVStorePermittedMethods

\* applyLuarWhitelists: the whitelist of each of these types.
Whitelist(type) ==
    IF type = "ListlessDB" THEN {}
    ELSE IF type = "PrivilegedDBWrapper" THEN PrivilegedDBPermittedMethods
    ELSE IF type = "ModeratorDBWrapper" THEN ModeratorDBPermittedMethods
    ELSE ListlessKVStorePermittedMethods

\* What luar answers a script that indexes a value of the type with name.
Permitted(type, name) ==
    /\ name \in Exported(type)
    /\ type \in Whitelisted => name \in Whitelist(type)

\* The type of the value a script gets by name from a value of the type,
\* "" when it is no value a script can index further.
Yields(name) ==
    IF name = "KVStore" THEN "ListlessKVStore"
    ELSE IF name \in {"GetSubscriber", "CreateSubscriber"} THEN "MemberMeta"
    ELSE IF name = "ListlessDB" THEN "ListlessDB"
    ELSE IF name = "DB" THEN "bolt.DB"
    ELSE IF name \in {"PrivilegedDBWrapper", "ModeratorDBWrapper"} THEN name
    ELSE ""

\* The names a script tries.
LuaNames ==
    ListlessDBMethods \cup BoltDBMethods \cup ListlessKVStorePermittedMethods
        \cup {"ListlessDB", "Email"}

\* ----------------------------------------------------------------------
\* State
\* ----------------------------------------------------------------------

VARIABLES
    em,        \* the wrapped message (Email) in hand
    lastOp,    \* the method of em its holder called last, "" when none
    lastArg,   \* its argument
    crashed,   \* the process has panicked
    pc,        \* where DeliveryLoop, DeliverOne, Handler and ProcessMail stand
    inbox,     \* the unseen mails of INBOX: [id, mail, parses, gen]
    arrivals,  \* the mails that have arrived so far
    uids,      \* DeliverOne: the mails of this round still to deliver
    n,         \* DeliverOne: the mails delivered in this round
    err,       \* DeliverOne: the round failed (connect, list)
    cur,       \* Handler: the mail being handled
    scriptOps, \* the calls the running script has made on the message
    ret,       \* the values of eventLoop that Handler sends on, NoRet otherwise
    sent,      \* the message SMTP accepted last, none before the first
    Shutdown,  \* the Shutdown channel is closed
    stages,    \* history: the stages the mail being handled went through
    cycle,     \* history: what happened in this round, see NoCycle
    slept,     \* the sleep DeliveryLoop is taking, "" when it is not asleep
    members,   \* the members bucket of the database: key -> entry
    dbCall,    \* the call of the database made last and what it returned
    rw,        \* the run of forEachSubscriberRW and the goroutines it started
    kvstores,  \* the kvstores bucket of the database: name -> (key -> value)
    handles,   \* the ListlessKVStore objects a script holds
    kvCall,    \* the call on a ListlessKVStore made last and what it returned
    transactions, \* the transactions bucket: hash of a secret -> entry
    clock,     \* time.Now()
    txCall,    \* the call on a MailTransaction made last and what it returned
    sandbox,   \* the sandbox a script runs in, "" when none does
    held,      \* the types of the Go values the script has got hold of
    luaCall,   \* the name the script indexed a value with last, and the outcome
    fnCall     \* the function of email.go or config.go called last, and its result

msgVars == <<em, lastOp, lastArg, crashed>>

loopVars == <<pc, inbox, arrivals, uids, n, err, cur, ret, sent, Shutdown, stages, cycle, slept>>

engineVars == <<em, lastOp, lastArg, crashed, pc, inbox, arrivals, uids, n, err, cur,
                scriptOps, ret, sent, Shutdown, stages, cycle, slept>>

txVars == <<transactions, clock, txCall>>

luaVars == <<sandbox, held, luaCall>>

storeVars == <<rw, kvstores, handles, kvCall, txVars, luaVars, fnCall>>

kvVars == <<kvstores, handles, kvCall>>

dbVars == <<members, dbCall, storeVars>>

vars == <<engineVars, dbVars>>

\* What a call of the database returned: its error, its boolean and its
\* member, each at its zero value when the call has no such result; now is
\* the time.Now() that CreateSubscriber read, 0 for the other calls.
Returned(op, e, result, meta, now) ==
    [op |-> op, err |-> e, result |-> result, meta |-> meta, now |-> now]

NoDbCall == Returned("", "nil", FALSE, NoMeta, 0)

\* No run of forEachSubscriberRW yet: lock is the writer lock of the
\* database held by the run's transaction, cursor the place of ForEach in
\* the bucket, visited the calls of the updater, pending the goroutines
\* that have not had their turn, before the bucket when the run began.
NoRun ==
    [lock |-> FALSE, updater |-> "", cursor |-> 0, visited |-> <<>>,
     pending |-> {}, before |-> EmptyBucket, failed |-> FALSE]

NoEmail == WrapEmail(NoMail)

NoCur == [id |-> 0, mail |-> NoMail, parses |-> TRUE, gen |-> 0]

NoRet == [okv |-> "", errmsg |-> ""]

\* A round of which nothing is known yet: whether the list of unseen mails
\* was empty, the stages that failed in it, and how the mails that Handler
\* returned nil for ended.
NoCycle == [empty |-> FALSE, failed |-> {}, handled |-> {}]

\* ----------------------------------------------------------------------
\* The methods of Email as a script calls them: each sets em, lastOp,
\* lastArg and crashed
\* ----------------------------------------------------------------------

Called(op, arg) == lastOp' = op /\ lastArg' = arg /\ UNCHANGED crashed

CallAddToRecipient(email) ==
    /\ em' = AddToRecipient(em, email)
    /\ Called("AddToRecipient", email)

CallAddCcRecipient(email) ==
    /\ em' = AddCcRecipient(em, email)
    /\ Called("AddCcRecipient", email)

CallAddBccRecipient(email) ==
    /\ em' = AddBccRecipient(em, email)
    /\ Called("AddBccRecipient", email)

CallAddRecipient(email) ==
    /\ em' = AddRecipient(em, email)
    /\ Called("AddRecipient", email)

CallRemoveRecipient(email) ==
    /\ em' = RemoveRecipient(em, email)
    /\ Called("RemoveRecipient", email)

CallClearRecipients ==
    /\ em' = ClearRecipients(em)
    /\ Called("ClearRecipients", <<>>)

\* A panic of a method ends the process: the script runs on the loop's goroutine.
CallNormaliseRecipients ==
    /\ em' = NormaliseRecipients(em).em
    /\ crashed' = NormaliseRecipients(em).panic
    /\ lastOp' = "NormaliseRecipients"
    /\ lastArg' = <<>>

CallSetHeader(value) ==
    /\ em' = SetHeader(em, value)
    /\ Called("SetHeader", value)

CallAddHeader(value) ==
    /\ em' = AddHeader(em, value)
    /\ Called("AddHeader", value)

CallDelHeader ==
    /\ em' = DelHeader(em)
    /\ Called("DelHeader", <<>>)

\* ----------------------------------------------------------------------
\* The inbox
\* ----------------------------------------------------------------------

\* The inbox is read by DeliverOneConnect alone: a mail that arrives at any
\* other time is first seen there, so arrivals are taken just before it.
Arrive(m) ==
    /\ ~crashed
    /\ pc = "poll"
    /\ arrivals < MaxArrivals
    /\ arrivals' = arrivals + 1
    /\ inbox' = Append(inbox, [id |-> arrivals + 1, mail |-> m.mail,
                               parses |-> m.parses, gen |-> 0])
    /\ UNCHANGED <<msgVars, pc, uids, n, err, cur, scriptOps, ret, sent, Shutdown,
                   stages, cycle, slept>>
    /\ UNCHANGED dbVars

\* A message the engine submitted is delivered to the list's own inbox.
LoopBack(s) ==
    /\ ~crashed
    /\ pc = "poll"
    /\ arrivals < MaxArrivals
    /\ arrivals' = arrivals + 1
    /\ inbox' = Append(inbox, [id |-> arrivals + 1, mail |-> s.mail,
                               parses |-> TRUE, gen |-> s.gen + 1])
    /\ UNCHANGED <<msgVars, pc, uids, n, err, cur, scriptOps, ret, sent, Shutdown,
                   stages, cycle, slept>>
    /\ UNCHANGED dbVars

\* ----------------------------------------------------------------------
\* imapclient.DeliverOne, as DeliveryLoop calls it: one round over the
\* unseen mails.  It returns an error only when it cannot connect or list;
\* a mail whose deliver function returns an error is logged and skipped
\* (errbox is ""), a mail whose deliver function returns nil is counted in
\* n and marked seen.
\* ----------------------------------------------------------------------

DeliverOneConnect ==
    /\ ~crashed
    /\ pc = "poll"
    /\ \E ok \in BOOLEAN :
          /\ uids' = IF ok THEN inbox ELSE <<>>
          /\ err' = ~ok
          /\ pc' = IF ok THEN "fetch" ELSE "select"
          /\ cycle' = [NoCycle EXCEPT !.empty = ok /\ inbox = <<>>,
                                      !.failed = IF ok THEN {} ELSE {"fetch"}]
    /\ n' = 0
    /\ UNCHANGED <<msgVars, inbox, arrivals, cur, scriptOps, ret, sent, Shutdown,
                   stages, slept>>
    /\ UNCHANGED dbVars

\* The next mail of the round is read and handed to Handler, or cannot be read.
DeliverOneRead ==
    /\ ~crashed
    /\ pc = "fetch"
    /\ uids # <<>>
    /\ uids' = Tail(uids)
    /\ \E read \in BOOLEAN :
          IF read
          THEN /\ cur' = Head(uids)
               /\ pc' = "parse"
               /\ stages' = <<>>
               /\ ret' = NoRet
               /\ UNCHANGED cycle
          ELSE /\ cycle' = [cycle EXCEPT !.failed = @ \cup {"fetch"}]
               /\ UNCHANGED <<cur, pc, stages, ret>>
    /\ UNCHANGED <<msgVars, inbox, arrivals, n, err, scriptOps, sent, Shutdown, slept>>
    /\ UNCHANGED dbVars

\* The round is over: DeliverOne returns (n, nil).
DeliverOneDone ==
    /\ ~crashed
    /\ pc = "fetch"
    /\ uids = <<>>
    /\ pc' = "select"
    /\ stages' = <<>>
    /\ UNCHANGED <<msgVars, inbox, arrivals, uids, n, err, cur, scriptOps, ret, sent,
                   Shutdown, cycle, slept>>
    /\ UNCHANGED dbVars

WithoutId(box, id) == SelectSeq(box, LAMBDA m : m.id # id)

\* Handler returns to DeliverOne.  With an error the mail is skipped and
\* may stay unseen; with nil it is counted and marked seen.  The message
\* and the script's thread are dropped.
HandlerReturns(failed, outcome) ==
    /\ n' = IF failed THEN n ELSE n + 1
    /\ \E unseen \in BOOLEAN :
          inbox' = IF failed /\ unseen THEN inbox ELSE WithoutId(inbox, cur.id)
    /\ cycle' = IF failed
                 THEN [cycle EXCEPT !.failed = @ \cup {outcome}]
                 ELSE [cycle EXCEPT !.handled = @ \cup {outcome}]
    /\ pc' = "fetch"
    /\ cur' = NoCur
    /\ em' = NoEmail
    /\ lastOp' = ""
    /\ lastArg' = <<>>
    /\ scriptOps' = 0
    /\ ret' = NoRet

\* ----------------------------------------------------------------------
\* engine.go: Handler and ProcessMail, stage by stage
\* ----------------------------------------------------------------------

\* Handler without the check of the header: a parsed mail is wrapped and
\* handed to ProcessMail.
HandlerParseUnfiltered ==
    /\ ~crashed
    /\ pc = "parse"
    /\ stages' = Append(stages, "parse")
    /\ IF cur.parses
       THEN /\ pc' = "normalise"
            /\ em' = WrapEmail(cur.mail)
            /\ UNCHANGED <<n, inbox, cycle, cur, lastOp, lastArg, scriptOps, ret>>
       ELSE HandlerReturns(TRUE, "parse")
    /\ UNCHANGED <<crashed, arrivals, uids, err, sent, Shutdown, slept>>
    /\ UNCHANGED dbVars

\* email.NewEmailFromReader
HandlerParse ==
    /\ ~crashed
    /\ pc = "parse"
    /\ stages' = Append(stages, "parse")
    /\ IF cur.parses
       THEN /\ pc' = "filter"
            /\ UNCHANGED <<n, inbox, cycle, cur, em, lastOp, lastArg, scriptOps, ret>>
       ELSE HandlerReturns(TRUE, "parse")
    /\ UNCHANGED <<crashed, arrivals, uids, err, sent, Shutdown, slept>>
    /\ UNCHANGED dbVars

\* The test of the header with the comparison the wrong way round.
SelfLoopInverted(mail) == GetHeader(mail) # ListAddress

\* The test of the mail's header against Config.ListAddress.
SelfLoop(mail) == GetHeader(mail) = ListAddress

\* The check for the sent-from-listless header, then WrapEmail.
HandlerFilter ==
    /\ ~crashed
    /\ pc = "filter"
    /\ stages' = Append(stages, "filter")
    /\ IF SelfLoop(cur.mail)
       THEN HandlerReturns(FALSE, "ignored")
       ELSE /\ em' = WrapEmail(cur.mail)
            /\ pc' = "normalise"
            /\ UNCHANGED <<n, inbox, cycle, cur, lastOp, lastArg, scriptOps, ret>>
    /\ UNCHANGED <<crashed, arrivals, uids, err, sent, Shutdown, slept>>
    /\ UNCHANGED dbVars

\* e.NormaliseRecipients() in ProcessMail.
ProcessMailNormalise ==
    /\ ~crashed
    /\ pc = "normalise"
    /\ CallNormaliseRecipients
    /\ stages' = Append(stages, "normalise")
    /\ pc' = "load"
    /\ UNCHANGED <<inbox, arrivals, uids, n, err, cur, scriptOps, ret, sent, Shutdown,
                   cycle, slept>>
    /\ UNCHANGED dbVars

\* L.DoFile(eng.Config.DeliverScript), then the call of eventLoop.
ProcessMailDoFile ==
    /\ ~crashed
    /\ pc = "load"
    /\ \E ok \in BOOLEAN :
          IF ok
          THEN /\ pc' = "script"
               /\ stages' = Append(stages, "script")
               /\ UNCHANGED <<n, inbox, cycle, cur, em, lastOp, lastArg, scriptOps, ret>>
          ELSE /\ HandlerReturns(TRUE, "handler")
               /\ UNCHANGED stages
    /\ UNCHANGED <<crashed, arrivals, uids, err, sent, Shutdown, slept>>
    /\ UNCHANGED dbVars

\* eventLoop raises an error: L.CallByParam returns it.
ScriptRaises ==
    /\ ~crashed
    /\ pc = "script"
    /\ HandlerReturns(TRUE, "handler")
    /\ UNCHANGED <<crashed, arrivals, uids, err, sent, Shutdown, stages, slept>>
    /\ UNCHANGED dbVars

\* eventLoop returns (message, okv, errmsg); ProcessMail reads the two
\* values and Handler acts on ProcessMail's (ok, err).
ScriptReturns(okv, errmsg) ==
    /\ ~crashed
    /\ pc = "script"
    /\ IF ProcessMailResult(okv, errmsg).err # "nil"
       THEN HandlerReturns(TRUE, "handler")
       ELSE IF ~ProcessMailResult(okv, errmsg).ok
       THEN HandlerReturns(FALSE, "dropped")
       ELSE /\ pc' = "send"
            /\ ret' = [okv |-> okv, errmsg |-> errmsg]
            /\ lastOp' = ""
            /\ lastArg' = <<>>
            /\ scriptOps' = 0
            /\ UNCHANGED <<n, inbox, cycle, cur, em>>
    /\ UNCHANGED <<crashed, arrivals, uids, err, sent, Shutdown, stages, slept>>
    /\ UNCHANGED dbVars

\* The shipped eventLoop runs to its end: a sender who may not post gets
\* (message, false, nil); for any other listifyMessage is called and
\* (message, true, nil) returned.  Its counts of posts go to another bucket.
eventLoop ==
    /\ ~crashed
    /\ pc = "script"
    /\ scriptOps = 0
    /\ IF ~IsAllowedPost(members, em.Sender)
       THEN HandlerReturns(FALSE, "dropped")
       ELSE /\ em' = listifyMessage(em, members)
            /\ pc' = "send"
            /\ ret' = [okv |-> "true", errmsg |-> "nil"]
            /\ UNCHANGED <<n, inbox, cycle, cur, lastOp, lastArg, scriptOps>>
    /\ UNCHANGED <<crashed, arrivals, uids, err, sent, Shutdown, stages, slept>>
    /\ UNCHANGED dbVars

\* The header added to the values the message has, instead of set.
HandlerStampAdds(m) == AddHeader(m, ListAddress)

\* luaMail.Headers.Set("sent-from-listless", eng.Config.ListAddress)
HandlerStamp(m) == SetHeader(m, ListAddress)

\* The submission Send makes: the message as its bytes are read back, its
\* delivery list, and, as history, the mail it came from and what the script
\* returned for it.
Submission(m, to) ==
    [mail |-> Reparsed(m), to |-> to, gen |-> cur.gen, inHeaders |-> cur.mail.Headers,
     okv |-> ret.okv, errmsg |-> ret.errmsg]

\* The header is stamped and the message sent, excluding the list address;
\* smtp.SendMail succeeds or fails.
HandlerSend ==
    /\ ~crashed
    /\ pc = "send"
    /\ stages' = Append(stages, "send")
    /\ IF Send(HandlerStamp(em), {ListAddress}).err
       THEN /\ HandlerReturns(TRUE, "smtp")
            /\ UNCHANGED sent
       ELSE \E smtpOk \in BOOLEAN :
               IF smtpOk
               THEN /\ sent' = {Submission(HandlerStamp(em),
                                            Send(HandlerStamp(em), {ListAddress}).to)}
                    /\ HandlerReturns(FALSE, "submitted")
               ELSE /\ HandlerReturns(TRUE, "smtp")
                    /\ UNCHANGED sent
    /\ UNCHANGED <<crashed, arrivals, uids, err, Shutdown, slept>>
    /\ UNCHANGED dbVars

\* ----------------------------------------------------------------------
\* engine.go: DeliveryLoop after DeliverOne, and Close
\* ----------------------------------------------------------------------

\* The select without the case of the closed channel.
DeliveryLoopSelectNeverReturns ==
    /\ ~crashed
    /\ pc = "select"
    /\ pc' = "sleep"
    /\ slept' = SleepAfter(n, err)
    /\ UNCHANGED <<msgVars, inbox, arrivals, uids, n, err, cur, scriptOps, ret, sent,
                   Shutdown, stages, cycle>>
    /\ UNCHANGED dbVars

\* The select on closeCh, then the choice of the sleep.
DeliveryLoopSelect ==
    /\ ~crashed
    /\ pc = "select"
    /\ IF Shutdown
       THEN pc' = "returned" /\ UNCHANGED slept
       ELSE pc' = "sleep" /\ slept' = SleepAfter(n, err)
    /\ UNCHANGED <<msgVars, inbox, arrivals, uids, n, err, cur, scriptOps, ret, sent,
                   Shutdown, stages, cycle>>
    /\ UNCHANGED dbVars

\* The timer fires: continue.  n and err are the iteration's own.
DeliveryLoopWake ==
    /\ ~crashed
    /\ pc = "sleep"
    /\ pc' = "poll"
    /\ slept' = ""
    /\ n' = 0
    /\ err' = FALSE
    /\ cycle' = NoCycle
    /\ UNCHANGED <<msgVars, inbox, arrivals, uids, cur, scriptOps, ret, sent,
                   Shutdown, stages>>
    /\ UNCHANGED dbVars

\* close(eng.Shutdown) in Engine.Close.  The loop reads the channel in its
\* select alone: a close is taken just before the select that reads it.
EngineClose ==
    /\ ~crashed
    /\ ~Shutdown
    /\ pc = "select"
    /\ Shutdown' = TRUE
    /\ UNCHANGED <<msgVars, pc, inbox, arrivals, uids, n, err, cur, scriptOps, ret, sent,
                   stages, cycle, slept>>
    /\ UNCHANGED dbVars

\* close(eng.Shutdown) while the loop is in its sleep.
EngineCloseAsleep ==
    /\ ~crashed
    /\ ~Shutdown
    /\ pc = "sleep"
    /\ Shutdown' = TRUE
    /\ UNCHANGED <<msgVars, pc, inbox, arrivals, uids, n, err, cur, scriptOps, ret, sent,
                   stages, cycle, slept>>
    /\ UNCHANGED dbVars

\* ----------------------------------------------------------------------
\* database.go: the calls of a script or of the engine on the database
\* ----------------------------------------------------------------------

CallCreateSubscriber(usremail, usrname, allowedpost, moderator, now) ==
    /\ dbCall' = Returned("CreateSubscriber", "nil", FALSE,
                          CreateSubscriber(usremail, usrname, allowedpost, moderator, now),
                          now)
    /\ UNCHANGED <<engineVars, members, storeVars>>

CallGetSubscriber(email) ==
    /\ LET sub == GetSubscriber(members, email)
       IN  dbCall' = Returned("GetSubscriber", sub.err, FALSE, sub.meta, 0)
    /\ UNCHANGED <<engineVars, members, storeVars>>

CallUpdateSubscriber(usremail, meta) ==
    /\ LET r == UpdateSubscriber(members, usremail, meta)
       IN  /\ members' = r.bucket
           /\ dbCall' = Returned("UpdateSubscriber", r.err, FALSE, NoMeta, 0)
    /\ UNCHANGED <<engineVars, storeVars>>

CallDelSubscriber(email) ==
    /\ LET r == DelSubscriber(members, email)
       IN  /\ members' = r.bucket
           /\ dbCall' = Returned("DelSubscriber", r.err, FALSE, NoMeta, 0)
    /\ UNCHANGED <<engineVars, storeVars>>

CallIsModerator(email) ==
    /\ dbCall' = Returned("IsModerator", "nil", IsModerator(members, email), NoMeta, 0)
    /\ UNCHANGED <<engineVars, members, storeVars>>

CallIsAllowedPost(email) ==
    /\ dbCall' = Returned("IsAllowedPost", "nil", IsAllowedPost(members, email), NoMeta, 0)
    /\ UNCHANGED <<engineVars, members, storeVars>>

\* The functions forEachSubscriberRW is called with: one that edits
\* nothing, one that deletes every entry, one that makes every member a
\* moderator in place, and one that moves every entry to the key of AddrB.
Updaters == {"view", "delete", "promote", "move", "refuse"}

\* The updater that returns an error: "refuse" asks for the deletion of
\* every entry but the one under AddrB, and returns an error for that one.
UpdaterFails(updater, oldemail) == updater = "refuse" /\ oldemail = AddrB

\* The calls forEachSubscriberRW starts as goroutines for one entry.
Queued(updater, oldemail, meta) ==
    IF UpdaterFails(updater, oldemail)
    THEN {}
    ELSE IF updater \in {"delete", "refuse"}
    THEN {[op |-> "DelSubscriber", email |-> oldemail, meta |-> NoMeta]}
    ELSE IF updater = "promote"
    THEN {[op |-> "UpdateSubscriber", email |-> oldemail,
           meta |-> [meta EXCEPT !.Moderator = TRUE]]}
    ELSE IF updater = "move"
    THEN {[op |-> "DelSubscriber", email |-> oldemail, meta |-> NoMeta],
          [op |-> "UpdateSubscriber", email |-> AddrB, meta |-> meta]}
    ELSE {}

\* One of these calls gets its turn on the database.
RunQueued(bucket, q) ==
    IF q.op = "DelSubscriber"
    THEN DelSubscriber(bucket, q.email).bucket
    ELSE UpdateSubscriber(bucket, q.email, q.meta).bucket

RECURSIVE Outcomes(_, _)

\* The buckets the goroutines can leave, whatever the order of their turns.
Outcomes(bucket, queue) ==
    IF queue = {} THEN {bucket}
    ELSE UNION {Outcomes(RunQueued(bucket, q), queue \ {q}) : q \in queue}

\* The keys ForEach comes to: those of the bucket up to the first one that
\* updater returns an error for.
VisitedKeys(bucket, updater) ==
    {BucketKeys[i] : i \in {j \in DOMAIN BucketKeys :
        /\ BucketKeys[j] \in DOMAIN bucket
        /\ \A l \in 1..(j - 1) :
               BucketKeys[l] \in DOMAIN bucket => ~UpdaterFails(updater, BucketKeys[l])}}

\* forEachSubscriberRW, and the goroutines it started, in any order.
CallForEachSubscriberRW(updater) ==
    /\ members' \in Outcomes(members,
                              UNION {Queued(updater, k, members[k]) :
                                        k \in VisitedKeys(members, updater)})
    /\ dbCall' = Returned("forEachSubscriberRW",
                          IF \E k \in DOMAIN members : UpdaterFails(updater, k)
                          THEN "error" ELSE "nil",
                          FALSE, NoMeta, 0)
    /\ UNCHANGED <<engineVars, storeVars>>

\* forEachSubscriberRW step by step
\* ----------------------------------------------------------------------

\* The place of the next entry members.ForEach visits: the first key of
\* the bucket after the cursor, 0 when there is none.
NextEntry(bucket, cursor) ==
    LET later == {i \in DOMAIN BucketKeys : i > cursor /\ BucketKeys[i] \in DOMAIN bucket}
    IN  IF later = {} THEN 0
        ELSE CHOOSE i \in later : \A j \in later : i <= j

\* db.Update of a goroutine that takes the writer lock although a
\* transaction holds it.
AwaitsNoLock(run) == TRUE

\* db.Update of a goroutine: it gets its transaction when no other writing
\* transaction is open.
AwaitsUpdateTx(run) == ~run.lock

\* db.Update begins the transaction of forEachSubscriberRW.
ForEachBegin(updater) ==
    /\ ~rw.lock
    /\ rw.pending = {}
    /\ rw' = [lock |-> TRUE, updater |-> updater, cursor |-> 0, visited |-> <<>>,
              pending |-> {}, before |-> members, failed |-> FALSE]
    /\ UNCHANGED <<engineVars, fnCall, luaVars, members, dbCall, kvVars, txVars>>

\* members.ForEach calls the function on the next entry, which calls
\* updater and starts the goroutines for what it returned; on an error of
\* updater ForEach and db.Update return it, and the transaction, which wrote
\* nothing, is rolled back.
ForEachEntry ==
    /\ rw.lock
    /\ NextEntry(members, rw.cursor) # 0
    /\ LET i == NextEntry(members, rw.cursor)
           oldemail == BucketKeys[i]
       IN  IF UpdaterFails(rw.updater, oldemail)
           THEN /\ rw' = [rw EXCEPT !.cursor = i,
                                    !.visited = Append(@, [email |-> oldemail,
                                                           meta |-> members[oldemail]]),
                                    !.lock = FALSE,
                                    !.failed = TRUE]
                /\ dbCall' = Returned("forEachSubscriberRW", "error", FALSE, NoMeta, 0)
           ELSE /\ rw' = [rw EXCEPT !.cursor = i,
                                    !.visited = Append(@, [email |-> oldemail,
                                                           meta |-> members[oldemail]]),
                                    !.pending = @ \cup Queued(rw.updater, oldemail,
                                                              members[oldemail])]
                /\ UNCHANGED dbCall
    /\ UNCHANGED <<engineVars, fnCall, luaVars, members, kvVars, txVars>>

\* ForEach is past the last entry: the transaction commits and
\* forEachSubscriberRW returns.
ForEachReturn ==
    /\ rw.lock
    /\ NextEntry(members, rw.cursor) = 0
    /\ rw' = [rw EXCEPT !.lock = FALSE]
    /\ dbCall' = Returned("forEachSubscriberRW", "nil", FALSE, NoMeta, 0)
    /\ UNCHANGED <<engineVars, fnCall, luaVars, members, kvVars, txVars>>

\* A goroutine gets its transaction and runs DelSubscriber or
\* UpdateSubscriber.
GoQueued(q) ==
    /\ q \in rw.pending
    /\ AwaitsUpdateTx(rw)
    /\ members' = RunQueued(members, q)
    /\ rw' = [rw EXCEPT !.pending = @ \ {q}]
    /\ UNCHANGED <<engineVars, fnCall, luaVars, dbCall, kvVars, txVars>>

\* The buckets of at most two entries that calls of UpdateSubscriber leave.
OneEntryBuckets ==
    {UpdateSubscriber(EmptyBucket, k, m).bucket : k \in {AddrA, AddrB}, m \in ListMetas}

RunBuckets ==
    {EmptyBucket} \cup OneEntryBuckets
        \cup {UpdateSubscriber(b, k, m).bucket :
                 b \in OneEntryBuckets, k \in {AddrA, AddrB}, m \in ListMetas}

\* database_keyvaluestores.go: the calls of a script on its stores
\* ----------------------------------------------------------------------

CallKVStore(h, bucketName) ==
    /\ kvstores' = CreateBucketIfNotExists(kvstores, bucketName)
    /\ handles' = [handles EXCEPT ![h] =
                      [open |-> TRUE, destroyed |-> FALSE, BucketName |-> bucketName]]
    /\ kvCall' = KVReturned("KVStore", h, "", "", "", <<>>, FALSE)
    /\ UNCHANGED <<engineVars, fnCall, luaVars, members, dbCall, rw, txVars>>

CallStore(h, key, value) ==
    /\ handles[h].open
    /\ LET r == Store(kvstores, handles[h], key, value)
       IN  /\ kvstores' = r.store
           /\ kvCall' = KVReturned("Store", h, key, value, "", <<>>, r.panic)
    /\ UNCHANGED <<engineVars, fnCall, luaVars, members, dbCall, rw, txVars, handles>>

CallRetrieve(h, key) ==
    /\ handles[h].open
    /\ LET r == Retrieve(kvstores, handles[h], key)
       IN  kvCall' = KVReturned("Retrieve", h, key, "", r.value, <<>>, r.panic)
    /\ UNCHANGED <<engineVars, fnCall, luaVars, members, dbCall, rw, txVars, handles, kvstores>>

CallDelete(h, key) ==
    /\ handles[h].open
    /\ LET r == KVDelete(kvstores, handles[h], key)
       IN  /\ kvstores' = r.store
           /\ kvCall' = KVReturned("Delete", h, key, "", "", <<>>, r.panic)
    /\ UNCHANGED <<engineVars, fnCall, luaVars, members, dbCall, rw, txVars, handles>>

CallKeys(h) ==
    /\ handles[h].open
    /\ LET r == Keys(kvstores, handles[h])
       IN  kvCall' = KVReturned("Keys", h, "", "", "", r.keys, r.panic)
    /\ UNCHANGED <<engineVars, fnCall, luaVars, members, dbCall, rw, txVars, handles, kvstores>>

CallDestroy(h) ==
    /\ handles[h].open
    /\ handles' = [handles EXCEPT ![h].destroyed = TRUE]
    /\ kvstores' = Destroy(kvstores, handles[h])
    /\ kvCall' = KVReturned("Destroy", h, "", "", "", <<>>, FALSE)
    /\ UNCHANGED <<engineVars, fnCall, luaVars, members, dbCall, rw, txVars>>

\* database_transactions.go: the calls on the transactions
\* ----------------------------------------------------------------------

\* What a call returned: its error, its boolean and the transaction that
\* GetTransaction returned.
TxReturned(op, secret, e, result, trans, now) ==
    [op |-> op, secret |-> secret, err |-> e, result |-> result, trans |-> trans,
     now |-> now]

NoTxCall == TxReturned("", "", "nil", FALSE, NoTransaction, 0)

CallPutTransaction(secret, newTransaction) ==
    /\ LET r == PutTransaction(transactions, secret, newTransaction, clock)
       IN  /\ transactions' = r.bucket
           /\ txCall' = TxReturned("PutTransaction", secret, r.err, FALSE, NoTransaction,
                                   clock)
    /\ UNCHANGED <<engineVars, fnCall, luaVars, members, dbCall, rw, kvVars, clock>>

CallGetTransaction(secret) ==
    /\ LET r == GetTransaction(transactions, secret)
       IN  txCall' = TxReturned("GetTransaction", secret, r.err, FALSE, r.trans, clock)
    /\ UNCHANGED <<engineVars, fnCall, luaVars, members, dbCall, rw, kvVars, clock, transactions>>

CallValidate(trans, sender) ==
    /\ txCall' = TxReturned("Validate", "", "nil", Validate(trans, sender, clock),
                           NoTransaction, clock)
    /\ UNCHANGED <<engineVars, fnCall, luaVars, members, dbCall, rw, kvVars, clock, transactions>>

CallTriggerTransaction(secret, sender) ==
    /\ LET r == TriggerTransaction(transactions, secret, sender, clock)
       IN  /\ transactions' = r.bucket
           /\ txCall' = TxReturned("TriggerTransaction", secret, r.err, r.hook,
                                   NoTransaction, clock)
    /\ UNCHANGED <<engineVars, fnCall, luaVars, members, dbCall, rw, kvVars, clock>>

\* Time passes.
Tick ==
    /\ clock < MaxClock
    /\ clock' = clock + 1
    /\ UNCHANGED <<engineVars, fnCall, luaVars, members, dbCall, rw, kvVars, transactions, txCall>>

\* The sandboxes and the scripts in them
\* ----------------------------------------------------------------------

\* What indexing a value returned.
Indexed(type, name, granted) == [type |-> type, name |-> name, granted |-> granted]

NoLuaCall == Indexed("", "", FALSE)

\* ModeratorSandbox: the global database is a ModeratorDBWrapper.
ModeratorSandbox ==
    /\ sandbox' = "Moderator"
    /\ held' = {"ModeratorDBWrapper"}
    /\ luaCall' = NoLuaCall
    /\ UNCHANGED <<engineVars, fnCall, members, dbCall, rw, kvVars, txVars>>

\* ProcessMail: eventLoop is given a PrivilegedDBWrapper.
PrivilegedSandbox ==
    /\ sandbox' = "Privileged"
    /\ held' = {"PrivilegedDBWrapper"}
    /\ luaCall' = NoLuaCall
    /\ UNCHANGED <<engineVars, fnCall, members, dbCall, rw, kvVars, txVars>>

\* The script indexes a value it holds with a name and, when luar lets it,
\* calls what it got and keeps the result.
ScriptIndexes(type, name) ==
    /\ type \in held
    /\ luaCall' = Indexed(type, name, Permitted(type, name))
    /\ held' = IF Permitted(type, name) /\ Yields(name) # ""
               THEN held \cup {Yields(name)} ELSE held
    /\ UNCHANGED <<engineVars, fnCall, members, dbCall, rw, kvVars, txVars, sandbox>>

\* email.go and config.go: functions called on their own
\* ----------------------------------------------------------------------

\* What a function returned for an argument.
FnReturned(op, arg, result) == [op |-> op, arg |-> arg, result |-> result]

NoFnCall == FnReturned("", <<>>, <<>>)

\* An input that was drawn and that no function was applied to yet.
FnInput(kind, arg) == FnReturned(kind, arg, <<>>)

\* The most items of a header line.
MaxItems == 2

\* "A", "Al" and "Bob": display names of three lengths.
Displays == {<<"A">>, <<"A", "l">>, <<"B", "o", "b">>}

\* An item of a header line: 'display <addr>'.
Item(display, addr) == display \o <<" ", "<">> \o addr \o <<">">>

\* The lists of at most MaxItems items, each a display name and an address.
ItemLists ==
    UNION {[1..len -> [display : Displays, addr : {AddrA, AddrB}]] : len \in 1..MaxItems}

\* The header line of a list of items.
Line(items) == JoinComma([i \in DOMAIN items |-> Item(items[i].display, items[i].addr)])

\* Lines that are no list of items: addresses, and brackets that are
\* missing, in the wrong order, empty, or around no address.
OtherLines ==
    {AddrA, AddrAUpper, AddrBSpaced, Unparseable, <<>>,
     <<"A", "l", " ", "<", "a", "@", "x", ".", "i", "o">>,
     <<">", "a", "@", "x", ".", "i", "o", "<">>,
     <<"A", "l", " ", "<", ">">>,
     <<"A", "l", " ", "<", "b", "a", "d", ">">>,
     <<"<", "A", ">", " ", "<", "B", "@", "x", ".", "i", "o", ">">>,
     <<"a", "@", "x", ".", "i", "o", ",", "b", "@", "x", ".", "i", "o">>}

HeaderLines == {Line(items) : items \in ItemLists} \cup OtherLines

CallNormaliseEmail(email) ==
    /\ fnCall = FnInput("line", email)
    /\ fnCall' = FnReturned("normaliseEmail", email, normaliseEmail(email))
    /\ UNCHANGED <<engineVars, members, dbCall, rw, kvVars, txVars, luaVars>>

CallParseExpressiveEmail(emailLine) ==
    /\ fnCall = FnInput("line", emailLine)
    /\ fnCall' = FnReturned("parseExpressiveEmail", emailLine,
                            parseExpressiveEmail(emailLine))
    /\ UNCHANGED <<engineVars, members, dbCall, rw, kvVars, txVars, luaVars>>

CallParseMultiExpressiveEmails(entry) ==
    /\ fnCall = FnInput("line", entry)
    /\ fnCall' = FnReturned("parseMultiExpressiveEmails", entry,
                            parseMultiExpressiveEmails(entry))
    /\ UNCHANGED <<engineVars, members, dbCall, rw, kvVars, txVars, luaVars>>

\* normaliseEmailSlice of a field that is one header line, on a message
\* with no recipient yet.
CallNormaliseEmailSlice(entry) ==
    /\ fnCall = FnInput("line", entry)
    /\ fnCall' = FnReturned("normaliseEmailSlice", entry,
                            normaliseEmailSlice({}, <<entry>>))
    /\ UNCHANGED <<engineVars, members, dbCall, rw, kvVars, txVars, luaVars>>

\* The values a configuration script can leave in a global: nothing, a
\* string, a whole number, a number with a fractional part.
LNil == [type |-> "nil", whole |-> 0, frac |-> 0]

LString == [type |-> "string", whole |-> 0, frac |-> 0]

LNumber(whole, frac) == [type |-> "number", whole |-> whole, frac |-> frac]

LValues == {LNil, LString, LNumber(5, 0), LNumber(0 - 2, 0), LNumber(1, 5)}

\* strconv.Atoi of LNumber.String(): the digits of a whole number are an
\* int, the text of a number with a fractional part is not.
Atoi(l) ==
    IF l.frac = 0 THEN [i |-> l.whole, err |-> FALSE] ELSE [i |-> 0, err |-> TRUE]

intOrDefault(l, def) ==
    IF l.type # "number"
    THEN 0 - 1
    ELSE IF Atoi(l).err THEN def ELSE Atoi(l).i

IntKeys == {"IMAPPort", "SMTPPort", "MessageFrequency", "PollFrequency"}

DefaultOf ==
    [key \in IntKeys |->
        CASE key = "IMAPPort" -> 143
          [] key = "SMTPPort" -> 465
          [] key = "MessageFrequency" -> 1
          [] key = "PollFrequency" -> 60]

\* The numeric fields of the Config that ConfigFromState builds.
ConfigFromState(L) == [key \in IntKeys |-> intOrDefault(L[key], DefaultOf[key])]

CallConfigFromState(L) ==
    /\ fnCall = FnInput("globals", L)
    /\ fnCall' = FnReturned("ConfigFromState", L, ConfigFromState(L))
    /\ UNCHANGED <<engineVars, members, dbCall, rw, kvVars, txVars, luaVars>>

\* The Permitted lists a script registers a transaction with, and the
\* transactions of the bucket they become: prepared when they were put, at
\* time 0, before their expiry.
PermittedLists ==
    {<<>>, <<AddrAUpper>>, <<Unparseable>>, <<AddrB, Unparseable>>}

PreparedTransactions ==
    {prepare(MailTransaction(p, FALSE, "r", e, "script", "hook"), 0).trans :
        p \in PermittedLists, e \in 1..(MaxClock - 1)}

\* The From lines of the mails that try to trigger them.
FromLines == {AddrA, ExprA, AddrB, Unparseable, <<>>}

\* trans.Validate(email) for the wrapper of a mail, at the time now.
CallValidateWrapped(trans, from, now) ==
    /\ fnCall = FnInput("mail", [trans |-> trans, From |-> from, now |-> now])
    /\ LET email == WrapEmail(Mail(<<>>, <<>>, <<>>, from, <<>>))
       IN  fnCall' = FnReturned("Validate",
                                [trans |-> trans, Sender |-> email.Sender, now |-> now],
                                Validate(trans, email.Sender, now))
    /\ UNCHANGED <<engineVars, members, dbCall, rw, kvVars, txVars, luaVars>>

\* ----------------------------------------------------------------------
\* Specifications
\* ----------------------------------------------------------------------

\* A call the script of the engine makes.  SpecMsg exercises every roster
\* method; here the script adds with AddRecipient, clears and normalises.
ScriptCalls(call) ==
    /\ ~crashed
    /\ pc = "script"
    /\ scriptOps < MaxScriptOps
    /\ call
    /\ scriptOps' = scriptOps + 1
    /\ UNCHANGED loopVars
    /\ UNCHANGED dbVars

\* A call of any caller that holds the message ProcessMail has normalised.
MsgCalls(call) ==
    /\ ~crashed
    /\ pc = "script"
    /\ call
    /\ UNCHANGED <<loopVars, scriptOps>>
    /\ UNCHANGED dbVars

Init ==
    /\ em = NoEmail
    /\ lastOp = ""
    /\ lastArg = <<>>
    /\ crashed = FALSE
    /\ pc = "poll"
    /\ inbox = <<>>
    /\ arrivals = 0
    /\ uids = <<>>
    /\ n = 0
    /\ err = FALSE
    /\ cur = NoCur
    /\ scriptOps = 0
    /\ ret = NoRet
    /\ sent = {}
    /\ Shutdown = FALSE
    /\ stages = <<>>
    /\ cycle = NoCycle
    /\ slept = ""
    /\ members = EmptyBucket
    /\ dbCall = NoDbCall
    /\ rw = NoRun
    /\ kvstores = NoBuckets
    /\ handles = [h \in Handles |-> NoHandle]
    /\ kvCall = NoKVCall
    /\ transactions = NoTransactions
    /\ clock = 0
    /\ txCall = NoTxCall
    /\ sandbox = ""
    /\ held = {}
    /\ luaCall = NoLuaCall
    /\ fnCall = NoFnCall

Next ==
    \/ \E m \in InboundMails : Arrive(m)
    \/ \E s \in sent : LoopBack(s)
    \/ DeliverOneConnect
    \/ DeliverOneRead
    \/ DeliverOneDone
    \/ HandlerParse
    \/ HandlerFilter
    \/ ProcessMailNormalise
    \/ ProcessMailDoFile
    \/ \E email \in ScriptAddrArgs : ScriptCalls(CallAddRecipient(email))
    \/ ScriptCalls(CallClearRecipients)
    \/ ScriptCalls(CallNormaliseRecipients)
    \/ \E value \in HeaderArgs : ScriptCalls(CallSetHeader(value))
    \/ \E value \in HeaderArgs : ScriptCalls(CallAddHeader(value))
    \/ ScriptCalls(CallDelHeader)
    \/ ScriptRaises
    \/ \E okv \in OkValues, errmsg \in ErrValues : ScriptReturns(okv, errmsg)
    \/ HandlerSend
    \/ DeliveryLoopSelect
    \/ DeliveryLoopWake
    \/ EngineClose

Spec == Init /\ [][Next]_vars

\* A step of the loop: of DeliverOne, of Handler and ProcessMail with a
\* script that leaves the message as it is, or of DeliveryLoop itself.
LoopStep ==
    \/ DeliverOneConnect
    \/ DeliverOneRead
    \/ DeliverOneDone
    \/ HandlerParse
    \/ HandlerFilter
    \/ ProcessMailNormalise
    \/ ProcessMailDoFile
    \/ ScriptRaises
    \/ \E okv \in OkValues, errmsg \in ErrValues : ScriptReturns(okv, errmsg)
    \/ HandlerSend
    \/ DeliveryLoopSelect
    \/ DeliveryLoopWake

NextLoop ==
    \/ \E m \in InboundMails : Arrive(m)
    \/ LoopStep
    \/ EngineClose
    \/ EngineCloseAsleep

\* The steps of imapclient.DeliverOne.
DeliverOneStep ==
    \/ DeliverOneConnect
    \/ DeliverOneRead
    \/ DeliverOneDone

\* The steps of DeliveryLoop itself: the select and the end of the sleep.
DeliveryLoopStep ==
    \/ DeliveryLoopSelect
    \/ DeliveryLoopWake

\* The control points of Handler and ProcessMail.
HandlerPoints == {"parse", "filter", "normalise", "load", "script", "send"}

\* Every call of the handler comes to its end: the loop is again and again
\* outside of Handler, or the process has panicked in it.
HandlerCallsEnd == []<>(pc \notin HandlerPoints \/ crashed)

\* The loop and the close of Shutdown at any time of it, every fetch,
\* handler call and sleep coming to its end.
SpecLoop ==
    /\ Init
    /\ [][NextLoop]_vars
    /\ WF_vars(DeliverOneStep)
    /\ WF_vars(DeliveryLoopStep)
    /\ HandlerCallsEnd

\* The message alone: a freshly wrapped mail in the hands of ProcessMail and
\* then of a caller of its roster methods.
InitMsg ==
    /\ em \in {WrapEmail(e) : e \in SampleMails}
    /\ lastOp = ""
    /\ lastArg = <<>>
    /\ crashed = FALSE
    /\ pc = "normalise"
    /\ inbox = <<>>
    /\ arrivals = 0
    /\ uids = <<>>
    /\ n = 0
    /\ err = FALSE
    /\ cur = NoCur
    /\ scriptOps = 0
    /\ ret = NoRet
    /\ sent = {}
    /\ Shutdown = FALSE
    /\ stages = <<>>
    /\ cycle = NoCycle
    /\ slept = ""
    /\ members = EmptyBucket
    /\ dbCall = NoDbCall
    /\ rw = NoRun
    /\ kvstores = NoBuckets
    /\ handles = [h \in Handles |-> NoHandle]
    /\ kvCall = NoKVCall
    /\ transactions = NoTransactions
    /\ clock = 0
    /\ txCall = NoTxCall
    /\ sandbox = ""
    /\ held = {}
    /\ luaCall = NoLuaCall
    /\ fnCall = NoFnCall

NextMsg ==
    \/ ProcessMailNormalise
    \/ ProcessMailDoFile
    \/ \E email \in AddrArgs : MsgCalls(CallAddToRecipient(email))
    \/ \E email \in AddrArgs : MsgCalls(CallAddCcRecipient(email))
    \/ \E email \in AddrArgs : MsgCalls(CallAddBccRecipient(email))
    \/ \E email \in AddrArgs : MsgCalls(CallAddRecipient(email))
    \/ \E email \in AddrArgs : MsgCalls(CallRemoveRecipient(email))
    \/ MsgCalls(CallClearRecipients)
    \/ MsgCalls(CallNormaliseRecipients)

SpecMsg == InitMsg /\ [][NextMsg]_vars

\* The list as it is shipped: the members bucket is set up, and the loop
\* hands every mail to the eventLoop of example_eventloop.lua.
InitList ==
    /\ em = NoEmail
    /\ lastOp = ""
    /\ lastArg = <<>>
    /\ crashed = FALSE
    /\ pc = "poll"
    /\ inbox = <<>>
    /\ arrivals = 0
    /\ uids = <<>>
    /\ n = 0
    /\ err = FALSE
    /\ cur = NoCur
    /\ scriptOps = 0
    /\ ret = NoRet
    /\ sent = {}
    /\ Shutdown = FALSE
    /\ stages = <<>>
    /\ cycle = NoCycle
    /\ slept = ""
    /\ members \in ListBuckets
    /\ dbCall = NoDbCall
    /\ rw = NoRun
    /\ kvstores = NoBuckets
    /\ handles = [h \in Handles |-> NoHandle]
    /\ kvCall = NoKVCall
    /\ transactions = NoTransactions
    /\ clock = 0
    /\ txCall = NoTxCall
    /\ sandbox = ""
    /\ held = {}
    /\ luaCall = NoLuaCall
    /\ fnCall = NoFnCall

NextList ==
    \/ \E m \in ListMails : Arrive(m)
    \/ DeliverOneConnect
    \/ DeliverOneRead
    \/ DeliverOneDone
    \/ HandlerParse
    \/ HandlerFilter
    \/ ProcessMailNormalise
    \/ ProcessMailDoFile
    \/ eventLoop
    \/ HandlerSend
    \/ DeliveryLoopSelect
    \/ DeliveryLoopWake

SpecList == InitList /\ [][NextList]_vars

\* The database alone: a moderator's script creates, stores, fetches and
\* deletes subscribers while no mail is being handled.
NextDB ==
    \/ \E usremail \in DbAddrArgs, a \in MemberArgs, now \in ClockTimes :
          CallCreateSubscriber(usremail, a[1], a[2], a[3], now)
    \/ \E email \in DbAddrArgs : CallGetSubscriber(email)
    \/ \E usremail \in DbAddrArgs, meta \in Metas : CallUpdateSubscriber(usremail, meta)
    \/ \E email \in DbAddrArgs : CallDelSubscriber(email)
    \/ \E email \in DbAddrArgs : CallIsModerator(email)
    \/ \E email \in DbAddrArgs : CallIsAllowedPost(email)
    \/ \E updater \in Updaters : CallForEachSubscriberRW(updater)

SpecDB == Init /\ [][NextDB]_vars

\* forEachSubscriberRW on a bucket of subscribers, the goroutines it starts
\* taking their turns as the writer lock lets them.
InitRun ==
    /\ em = NoEmail
    /\ lastOp = ""
    /\ lastArg = <<>>
    /\ crashed = FALSE
    /\ pc = "poll"
    /\ inbox = <<>>
    /\ arrivals = 0
    /\ uids = <<>>
    /\ n = 0
    /\ err = FALSE
    /\ cur = NoCur
    /\ scriptOps = 0
    /\ ret = NoRet
    /\ sent = {}
    /\ Shutdown = FALSE
    /\ stages = <<>>
    /\ cycle = NoCycle
    /\ slept = ""
    /\ members \in RunBuckets
    /\ dbCall = NoDbCall
    /\ rw = NoRun
    /\ kvstores = NoBuckets
    /\ handles = [h \in Handles |-> NoHandle]
    /\ kvCall = NoKVCall
    /\ transactions = NoTransactions
    /\ clock = 0
    /\ txCall = NoTxCall
    /\ sandbox = ""
    /\ held = {}
    /\ luaCall = NoLuaCall
    /\ fnCall = NoFnCall

NextRun ==
    \/ \E updater \in Updaters : ForEachBegin(updater)
    \/ ForEachEntry
    \/ ForEachReturn
    \/ \E q \in rw.pending : GoQueued(q)

SpecRun == InitRun /\ [][NextRun]_vars

\* A script with two variables for ListlessKVStore objects, while no mail
\* is being handled.
NextKV ==
    \/ \E h \in Handles, bucketName \in KVStoreNames : CallKVStore(h, bucketName)
    \/ \E h \in Handles, key \in KVKeyArgs, value \in KVValues : CallStore(h, key, value)
    \/ \E h \in Handles, key \in KVKeyArgs : CallRetrieve(h, key)
    \/ \E h \in Handles, key \in KVKeyArgs : CallDelete(h, key)
    \/ \E h \in Handles : CallKeys(h)
    \/ \E h \in Handles : CallDestroy(h)

SpecKV == Init /\ [][NextKV]_vars

\* Scripts that register transactions and mails that carry their secrets,
\* while time passes.
NextTx ==
    \/ \E secret \in Secrets, t \in TxArgs : CallPutTransaction(secret, t)
    \/ \E secret \in Secrets : CallGetTransaction(secret)
    \/ \E t \in TxArgs, sender \in TxSenders : CallValidate(t, sender)
    \/ \E secret \in Secrets, sender \in TxSenders : CallTriggerTransaction(secret, sender)
    \/ Tick

SpecTx == Init /\ [][NextTx]_vars

\* A script in one of the two sandboxes, trying every name on every value
\* it holds.
NextLua ==
    \/ ModeratorSandbox
    \/ PrivilegedSandbox
    \/ \E type \in LuarTypes, name \in LuaNames : ScriptIndexes(type, name)

SpecLua == Init /\ [][NextLua]_vars

\* The parsers of email.go and the reader of the configuration, each
\* called on its own.
\* An input is drawn and one of the functions is applied to it.
InitFn ==
    /\ em = NoEmail
    /\ lastOp = ""
    /\ lastArg = <<>>
    /\ crashed = FALSE
    /\ pc = "poll"
    /\ inbox = <<>>
    /\ arrivals = 0
    /\ uids = <<>>
    /\ n = 0
    /\ err = FALSE
    /\ cur = NoCur
    /\ scriptOps = 0
    /\ ret = NoRet
    /\ sent = {}
    /\ Shutdown = FALSE
    /\ stages = <<>>
    /\ cycle = NoCycle
    /\ slept = ""
    /\ members = EmptyBucket
    /\ dbCall = NoDbCall
    /\ rw = NoRun
    /\ kvstores = NoBuckets
    /\ handles = [h \in Handles |-> NoHandle]
    /\ kvCall = NoKVCall
    /\ transactions = NoTransactions
    /\ clock = 0
    /\ txCall = NoTxCall
    /\ sandbox = ""
    /\ held = {}
    /\ luaCall = NoLuaCall
    /\ fnCall \in {FnInput("line", line) : line \in HeaderLines}
                  \cup {FnInput("globals", L) : L \in [IntKeys -> LValues]}
                  \cup {FnInput("mail", mail) :
                            mail \in [trans : PreparedTransactions, From : FromLines,
                                      now : 0..MaxClock]}

NextFn ==
    \/ \E email \in HeaderLines : CallNormaliseEmail(email)
    \/ \E emailLine \in HeaderLines : CallParseExpressiveEmail(emailLine)
    \/ \E entry \in HeaderLines : CallParseMultiExpressiveEmails(entry)
    \/ \E entry \in HeaderLines : CallNormaliseEmailSlice(entry)
    \/ \E L \in [IntKeys -> LValues] : CallConfigFromState(L)
    \/ \E trans \in PreparedTransactions, from \in FromLines, now \in 0..MaxClock :
           CallValidateWrapped(trans, from, now)

SpecFn == InitFn /\ [][NextFn]_vars

\* ----------------------------------------------------------------------
\* Properties
\* ----------------------------------------------------------------------

Elems(list) == {list[i] : i \in DOMAIN list}

NoDuplicates(list) == \A i, j \in DOMAIN list : i # j => list[i] # list[j]

PairwiseDisjoint(m) ==
    /\ Elems(m.To) \cap Elems(m.Cc) = {}
    /\ Elems(m.To) \cap Elems(m.Bcc) = {}
    /\ Elems(m.Cc) \cap Elems(m.Bcc) = {}

InLists(m) == Elems(m.To) \cup Elems(m.Cc) \cup Elems(m.Bcc)

SetMatchesLists(m) == m.inRecipientLists = InLists(m)

RosterDisjointness(m) ==
    /\ PairwiseDisjoint(m)
    /\ NoDuplicates(m.To)
    /\ NoDuplicates(m.Cc)
    /\ NoDuplicates(m.Bcc)

RosterOps ==
    {"AddToRecipient", "AddCcRecipient", "AddBccRecipient", "AddRecipient",
     "RemoveRecipient", "ClearRecipients"}

AddListOps == {"AddToRecipient", "AddCcRecipient", "AddBccRecipient"}

\* A step in which the holder of the message calls one of its methods.
MethodCall == pc = "script" /\ pc' = "script" /\ ~crashed

\* C1: a call of AddToRecipient, AddCcRecipient, AddBccRecipient,
\* AddRecipient, RemoveRecipient or ClearRecipients, with any argument, on a
\* message whose lists are pairwise disjoint and duplicate-free and whose
\* set inRecipientLists is their union, leaves such a message; so does any
\* sequence of such calls.
C1_RosterKeptByAddRemoveClear ==
    [][(MethodCall /\ lastOp' \in RosterOps
        /\ RosterDisjointness(em) /\ SetMatchesLists(em))
       => (RosterDisjointness(em') /\ SetMatchesLists(em'))]_vars

\* A message with a in To and b in Cc and Bcc empty has had a removed under
\* the name A@x.io: b is left in Cc, and the roster is intact.
C1_Removed ==
    /\ lastOp = "RemoveRecipient"
    /\ lastArg = AddrAUpper
    /\ em.To = <<>>
    /\ em.Cc = <<AddrB>>
    /\ em.inRecipientLists = {AddrB}
    /\ RosterDisjointness(em)

\* C2: whenever NormaliseRecipients has returned, To, Cc and Bcc are
\* pairwise disjoint and inRecipientLists is exactly the set of the
\* addresses in the three lists.
C2_NormaliseEnforcesRoster ==
    (lastOp = "NormaliseRecipients" /\ ~crashed)
        => (PairwiseDisjoint(em) /\ SetMatchesLists(em))

\* C3: AddToRecipient, AddCcRecipient or AddBccRecipient called with an
\* address whose normal form is in To, Cc or Bcc changes neither the three
\* lists nor inRecipientLists.
C3_AddOfPresentAddressIsNoOp ==
    [][(MethodCall /\ lastOp' \in AddListOps
        /\ normaliseEmail(lastArg') \in InLists(em))
       => /\ em'.To = em.To
          /\ em'.Cc = em.Cc
          /\ em'.Bcc = em.Bcc
          /\ em'.inRecipientLists = em.inRecipientLists]_vars

\* AddCcRecipient("A@x.io") has been called on a message with a@x.io in
\* To: the address is in To still and not in Cc.
C3_AddedAcrossListsAndCase ==
    /\ lastOp = "AddCcRecipient"
    /\ lastArg = AddrAUpper
    /\ AddrA \in Elems(em.To)
    /\ AddrA \notin Elems(em.Cc)
    /\ em.Cc # <<>>

\* C4: a message is submitted by SMTP, and Handler is about to send it, only
\* when eventLoop returned the boolean true as its second value.
C4_SubmittedOnlyOnTrue ==
    /\ \A s \in sent : s.okv = "true"
    /\ pc = "send" => ret.okv = "true"

\* A message for which eventLoop returned send=false has been dropped, and
\* nothing has been submitted.
C4_Dropped == "dropped" \in cycle.handled /\ sent = {}

\* C5: no message is submitted for which eventLoop returned a third value
\* that is not nil.
C5_NoSubmissionWithErrorValue == \A s \in sent : s.errmsg = "nil"

\* The sent-from-listless header with the list's own address as its value.
NamesOwnList(headers) == headers # <<>> /\ headers[1] = ListAddress

\* C6: a mail whose sent-from-listless header equals ListAddress is never
\* wrapped, normalised, given to eventLoop or sent, and no submission comes
\* from such a mail.
C6_SelfLoopNeverHandled ==
    /\ pc \in {"normalise", "load", "script", "send"} => ~NamesOwnList(cur.mail.Headers)
    /\ \A s \in sent : ~NamesOwnList(s.inHeaders)

\* A mail with the list's own header has gone through parse and filter and
\* Handler has returned nil for it.
C6_Ignored ==
    /\ stages = <<"parse", "filter">>
    /\ "ignored" \in cycle.handled
    /\ pc = "fetch"

\* C7: every submitted message has the one sent-from-listless value
\* ListAddress, and none comes from a mail the engine submitted before.
C7_SubmissionsStamped ==
    \A s \in sent : s.mail.Headers = <<ListAddress>> /\ s.gen = 0

\* A mail that came with another list's header has been submitted, has
\* come back to the inbox and is before the filter with the list's own.
C7_SubmissionCameBack ==
    /\ pc = "filter"
    /\ cur.gen = 1
    /\ cur.mail.Headers = <<ListAddress>>
    /\ \E s \in sent : s.inHeaders = <<OtherList>>

StageOrder == <<"parse", "filter", "normalise", "script", "send">>

IsPrefix(s, t) == Len(s) <= Len(t) /\ \A i \in DOMAIN s : s[i] = t[i]

\* C8: the stages a mail has gone through are an initial part of parse,
\* filter, normalise, script, send, and Handler is at the send only after
\* the four stages before it and eventLoop's return of send=true.
C8_StagesInOrder ==
    /\ IsPrefix(stages, StageOrder)
    /\ pc = "send" => (stages = SubSeq(StageOrder, 1, 4) /\ ret.okv = "true")
    /\ pc = "script" => stages = SubSeq(StageOrder, 1, 4)
    /\ pc = "normalise" => stages = SubSeq(StageOrder, 1, 2)

\* A mail has gone through the five stages and has been submitted.
C8_AllStages ==
    /\ stages = StageOrder
    /\ "submitted" \in cycle.handled
    /\ sent # {}

C10_ErrorsNeverEndTheLoop ==
    /\ (pc = "sleep" /\ (cycle.empty \/ cycle.failed # {})) => slept = "PollFrequency"
    /\ (pc = "returned" \/ crashed) => Shutdown

\* The keys of the roster that do not normalise to the address x.
RosterWithout(m, x) ==
    {k \in m.inRecipientLists : normaliseEmail(k) # normaliseEmail(x)}

SubscriberAddresses(bucket) ==
    {normaliseEmail(bucket[k].Email) : k \in DOMAIN bucket} \ {<<>>}

\* Every entry of the bucket is of a member who may post and whose Email is
\* the key of the entry.
AllMayPost(bucket) ==
    \A k \in DOMAIN bucket : bucket[k].AllowedPost /\ bucket[k].Email = k

\* C14 as the specification states it: with subscribers who may all post,
\* a mail of subscriber s is submitted to the subscribers other than s.
C14_DeliveredToAllButSender ==
    [][(pc = "send" /\ n' = n + 1 /\ AllMayPost(members)) =>
          \A s \in sent' : s.to = DOMAIN members \ {em.Sender}]_vars

\* C14: with the shipped eventLoop a mail is submitted only for a sender
\* who may post, and then to the Email address of every entry of the
\* members bucket, the sender's among them, and not to ListAddress.
C14_DeliveredToAllSubscribers ==
    [][(pc = "send" /\ n' = n + 1) =>
          /\ IsAllowedPost(members, em.Sender)
          /\ sent' # {}
          /\ \A s \in sent' :
                /\ s.to = SubscriberAddresses(members) \ {ListAddress}
                /\ AllMayPost(members) => (s.to = DOMAIN members /\ em.Sender \in s.to)]_vars

\* The mail of subscriber a@x.io was submitted to a@x.io and b@x.io.
C14_SenderGotOwnPost ==
    /\ AllMayPost(members)
    /\ \E s \in sent : s.mail.From = ExprA /\ s.to = {AddrA, AddrB}

\* The canonical form of each address of DbAddrArgs, <<>> when it has none.
Canonical == [a \in DbAddrArgs |-> normaliseEmail(a)]

Canonicalisable == {a \in DbAddrArgs : Canonical[a] # <<>>}

\* The addresses of the canonical form of a.
SameAddress(a) == {a2 \in DbAddrArgs : Canonical[a2] = Canonical[a]}

C16_DelSubscriberIdempotent ==
    \A a \in Canonicalisable :
       LET r == DelSubscriber(members, a)
       IN  /\ r.err = "nil"
           /\ DelSubscriber(r.bucket, a) = [bucket |-> r.bucket, err |-> "nil"]
           /\ DOMAIN r.bucket = DOMAIN members \ {Canonical[a]}
           /\ \A k \in DOMAIN members \ {Canonical[a]} : r.bucket[k] = members[k]

\* DelSubscriber returned no error and the entry of the other address is
\* the only one left.
C16_Deleted ==
    /\ dbCall.op = "DelSubscriber"
    /\ dbCall.err = "nil"
    /\ DOMAIN members = {AddrB}

\* C17: IsModerator and IsAllowedPost are FALSE for an address without an
\* entry and for an address that cannot be canonicalised, and the flag of
\* the stored member otherwise; they return a boolean and nothing else.
C17_FlagsOfStoredMember ==
    \A a \in DbAddrArgs :
       LET mod == IsModerator(members, a)
           post == IsAllowedPost(members, a)
       IN  /\ mod \in BOOLEAN
           /\ post \in BOOLEAN
           /\ IF Canonical[a] = <<>> \/ Canonical[a] \notin DOMAIN members
              THEN ~mod /\ ~post
              ELSE /\ mod = members[Canonical[a]].Moderator
                   /\ post = members[Canonical[a]].AllowedPost

\* IsModerator has answered TRUE for a member who may not post.
C17_ModeratorFound ==
    /\ dbCall.op = "IsModerator"
    /\ dbCall.result
    /\ \E k \in DOMAIN members : members[k].Moderator /\ ~members[k].AllowedPost

\* C18: with an address that cannot be canonicalised GetSubscriber,
\* UpdateSubscriber and DelSubscriber return ErrInvalidEmail and leave the
\* bucket as it is; GetSubscriber for a canonicalisable address without an
\* entry returns ErrMemberEntryNotFound.
C18_InvalidEmailAndNotFound ==
    /\ \A a \in DbAddrArgs \ Canonicalisable :
          /\ GetSubscriber(members, a).err = "ErrInvalidEmail"
          /\ DelSubscriber(members, a) = [bucket |-> members, err |-> "ErrInvalidEmail"]
          /\ \A m \in Metas :
                UpdateSubscriber(members, a, m)
                   = [bucket |-> members, err |-> "ErrInvalidEmail"]
    /\ \A a \in Canonicalisable :
          Canonical[a] \notin DOMAIN members =>
             GetSubscriber(members, a).err = "ErrMemberEntryNotFound"

\* GetSubscriber has missed an entry in a bucket that holds another one.
C18_NotFound ==
    /\ dbCall.op = "GetSubscriber"
    /\ dbCall.err = "ErrMemberEntryNotFound"
    /\ members # EmptyBucket

\* C19: every entry of the members bucket holds a member whose Email is
\* not empty and is the key of the entry.
C19_EmailIsKey ==
    \A k \in DOMAIN members :
       /\ members[k].Email # <<>>
       /\ members[k].Email = k

\* C20: the Joindate of the member CreateSubscriber returns is not later
\* than the time of the call.
C20_JoindateNotInFuture ==
    dbCall.op = "CreateSubscriber" => dbCall.meta.Joindate <= dbCall.now

\* C11: once Shutdown is closed, DeliveryLoop begins no other round: it
\* does not leave the point before DeliverOne.
C11_NoFetchAfterClose ==
    [][Shutdown => ~(pc = "poll" /\ pc' # "poll")]_vars

\* Shutdown was closed during the sleep, and the loop is in a round.
C11_RoundAfterClose == Shutdown /\ pc = "fetch" /\ cycle.empty

\* C12: with Shutdown closed, and every fetch, handler call and sleep
\* coming to its end, DeliveryLoop returns; a handler call that panics
\* does not come to its end.
C12_ClosedLoopReturns == Shutdown ~> (pc = "returned" \/ crashed)

\* Shutdown was closed during a sleep and DeliveryLoop has returned after
\* one more round, in which a mail was handled.
C12_Returned ==
    /\ pc = "returned"
    /\ Shutdown
    /\ cycle.handled # {}

\* The members forEachSubscriberRW started with, in the order of ForEach.
EntriesBefore ==
    SelectSeq([i \in DOMAIN BucketKeys |->
                  IF BucketKeys[i] \in DOMAIN rw.before
                  THEN [email |-> BucketKeys[i], meta |-> rw.before[BucketKeys[i]]]
                  ELSE [email |-> "", meta |-> NoMeta]],
              LAMBDA e : e.email # "")

\* The run is over and every goroutine it started has had its turn.
RunApplied == ~rw.lock /\ rw.updater # "" /\ rw.pending = {}

\* What the spec says of the entry under oldemail once the run is applied.
EntryAsAnnounced(oldemail) ==
    LET meta == rw.before[oldemail]
    IN  IF rw.updater = "delete" THEN oldemail \notin DOMAIN members
        ELSE IF rw.updater = "promote"
        THEN /\ oldemail \in DOMAIN members
             /\ members[oldemail] = [meta EXCEPT !.Moderator = TRUE]
        ELSE IF rw.updater = "move" /\ oldemail # AddrB
        THEN /\ oldemail \notin DOMAIN members
             /\ AddrB \in DOMAIN members
             /\ members[AddrB] = meta
        ELSE IF rw.updater = "move"
        THEN /\ oldemail \in DOMAIN members
             /\ members[oldemail] = meta
        ELSE TRUE

\* C21: once every goroutine of a run of forEachSubscriberRW has had its
\* turn, in whatever order, an entry whose new member is nil is gone, an
\* entry given another key is gone and its new member is stored under that
\* key, and an entry given no key or its own key is still under its key
\* and holds the new member.
C21_EveryEditApplied ==
    RunApplied => \A oldemail \in DOMAIN rw.before : EntryAsAnnounced(oldemail)

\* C22: while forEachSubscriberRW iterates the bucket is as it was when the
\* run began, no goroutine of the run has had its turn, and when the run
\* returns, updater having returned no error, updater has been called
\* exactly once on every entry the bucket had when the run began and on no
\* other.
C22_MutationsWaitForIteration ==
    /\ rw.lock => members = rw.before
    /\ rw.lock => rw.visited = SubSeq(EntriesBefore, 1, Len(rw.visited))
    /\ (~rw.lock /\ rw.updater # "" /\ ~rw.failed) => rw.visited = EntriesBefore

\* The run visited two entries and returned, and only then did its
\* goroutines change the bucket.
C22_AppliedAfterReturn ==
    /\ RunApplied
    /\ Len(rw.visited) = 2
    /\ members # rw.before


\* The call made last was made on a ListlessKVStore that Destroy had been
\* called on before.
OnDestroyed == kvCall'.op \notin {"", "KVStore"} /\ handles[kvCall'.handle].destroyed

\* C23: a call of Store, Retrieve, Delete, Keys or Destroy on a
\* ListlessKVStore that was destroyed returns, returns "" or no keys, and
\* leaves the kvstores bucket as it was.
C23_DestroyedHandleIsInert ==
    [][OnDestroyed => /\ ~kvCall'.panic
                      /\ kvCall'.value = ""
                      /\ kvCall'.keys = <<>>
                      /\ kvstores' = kvstores]_vars

\* The call made last was made on a ListlessKVStore that is open and that
\* Destroy was not called on.
OnLive ==
    /\ kvCall'.op \in {"Store", "Retrieve", "Delete", "Keys"}
    /\ ~handles[kvCall'.handle].destroyed

\* The bucket a ListlessKVStore names, as a map.
MapOf(store, kv) == IF IsNilBucket(store, kv) THEN EmptyKV ELSE store[kv.BucketName]

\* C24: through a ListlessKVStore that was not destroyed the bucket is a
\* map from strings to strings: Store(k, v) leaves k mapped to v and no
\* other key changed, Delete(k) leaves k absent and no other key changed,
\* Retrieve(k) returns what k is mapped to and "" when it is absent, Keys
\* returns the keys that are present, each once, and what Store and Delete
\* leave is what every ListlessKVStore of that name reads.
C24_LiveHandleIsAMap ==
    [][OnLive =>
        LET kv == handles[kvCall'.handle]
            old == MapOf(kvstores, kv)
            new == MapOf(kvstores', kv)
            key == kvCall'.key
        IN  /\ ~kvCall'.panic
            /\ kvCall'.op = "Store" =>
                   new = [k \in DOMAIN old \cup {key} |->
                             IF k = key THEN kvCall'.arg ELSE old[k]]
            /\ kvCall'.op = "Delete" => new = [k \in DOMAIN old \ {key} |-> old[k]]
            /\ kvCall'.op = "Retrieve" =>
                   /\ new = old
                   /\ kvCall'.value = IF key \in DOMAIN old THEN old[key] ELSE ""
            /\ kvCall'.op = "Keys" =>
                   /\ new = old
                   /\ {kvCall'.keys[i] : i \in DOMAIN kvCall'.keys} = DOMAIN old
                   /\ Len(kvCall'.keys) = Cardinality(DOMAIN old)]_vars

\* The transaction is one PutTransaction has no script to call for.
NotReady(t) == t.ScriptName = "" \/ t.ScriptHook = ""

\* What PutTransaction does when it fails and when it succeeds: a failure
\* leaves the bucket as it was, a success puts the transaction, its
\* Permitted normalised, under the hash of the secret and adds no other
\* key.
PutWritesHashOrNothing(secret, t, r) ==
    /\ r.err # "nil" => r.bucket = transactions
    /\ r.err = "nil" =>
           r.bucket = Put(transactions, hashSecret(secret),
                          jTransaction([t EXCEPT !.Permitted =
                              [i \in DOMAIN @ |-> Canonical[@[i]]]]))

C26_ExpiredIsNotFoundOrExpired ==
    \A secret \in Secrets :
        (/\ hashSecret(secret) \in DOMAIN transactions
         /\ isExpired(transactions[hashSecret(secret)].json, clock))
        => LET r == GetTransaction(transactions, secret)
           IN  /\ r.err \in {"ErrTransactionNotFound", "ErrExpiredTransaction"}
               /\ r.trans = NoTransaction

\* C27: GetTransaction of a secret that PutTransaction stored a
\* transaction under, before its expiry, returns that transaction and no
\* error; of a secret nothing is stored under, ErrTransactionNotFound.
C27_GetReturnsWhatPutStored ==
    \A secret \in Secrets :
        LET r == GetTransaction(transactions, secret)
        IN  IF hashSecret(secret) \notin DOMAIN transactions
            THEN r.err = "ErrTransactionNotFound"
            ELSE ~isExpired(transactions[hashSecret(secret)].json, clock)
                 => /\ r.err = "nil"
                    /\ r.trans = transactions[hashSecret(secret)].json

\* C28: a transaction that has not expired and whose Permitted is empty is
\* valid for every sender.
C28_EmptyPermittedAdmitsAnySender ==
    \A t \in TxArgs, sender \in TxSenders :
        (t.Permitted = <<>> /\ ~isExpired(t, clock)) => Validate(t, sender, clock)

\* C29: a mail from a permitted sender triggers a stored transaction that
\* has not expired; the transaction is gone after it when Persists is
\* false, and is still there, to be triggered again, when Persists is true.
C29_SingleUseUnlessPersists ==
    \A secret \in Secrets, sender \in TxSenders :
        LET h == hashSecret(secret)
            r == TriggerTransaction(transactions, secret, sender, clock)
        IN  (/\ h \in DOMAIN transactions
             /\ ~isExpired(transactions[h].json, clock)
             /\ \/ transactions[h].json.Permitted = <<>>
                \/ Canonical[sender] \in Elems(transactions[h].json.Permitted))
            => /\ r.err = "nil"
               /\ r.hook
               /\ IF transactions[h].json.Persists
                  THEN r.bucket = transactions
                  ELSE h \notin DOMAIN r.bucket

C31_SplitNeverPanics ==
    fnCall.op = "parseMultiExpressiveEmails" => ~fnCall.result.panic

\* The addresses of a list of items are all different.
DistinctAddrs(items) == \A i, j \in DOMAIN items : i # j => items[i].addr # items[j].addr

\* C32: for a line of well-formed items joined by commas, splitting the
\* line and parsing each piece gives the address of every item, once and
\* in the order of the line, whatever the lengths of the items.
C32_EveryItemRecovered ==
    \A items \in ItemLists :
        (/\ fnCall.op = "normaliseEmailSlice"
         /\ fnCall.arg = Line(items)
         /\ DistinctAddrs(items))
        => /\ ~fnCall.result.panic
           /\ fnCall.result.newField = [i \in DOMAIN items |-> items[i].addr]

\* C33: normaliseEmail of what normaliseEmail returned is that again, an
\* address that is the canonical form of some input is returned as it is,
\* and inputs that differ in the case of their letters alone have the same
\* result.
C33_NormaliseIdempotentAnyCase ==
    fnCall.op = "normaliseEmail" =>
        /\ normaliseEmail(fnCall.result) = fnCall.result
        /\ \A b \in HeaderLines :
               ToLower(b) = ToLower(fnCall.arg) => normaliseEmail(b) = fnCall.result
        /\ (fnCall.arg # <<>> /\ \E b \in HeaderLines : normaliseEmail(b) = fnCall.arg)
               => fnCall.result = fnCall.arg

\* normaliseEmail was given an address in capitals and returned its
\* canonical form.
C33_CapitalsNormalised ==
    /\ fnCall.op = "normaliseEmail"
    /\ fnCall.arg = AddrAUpper
    /\ fnCall.arg # AddrA
    /\ fnCall.result = AddrA

\* What the last "<" and the last ">" of a line hold when they come in this
\* order, <<>> otherwise.
Enclosed(emailLine) ==
    IF Contains(emailLine, "<") /\ LastIndex(emailLine, "<") < LastIndex(emailLine, ">")
    THEN GoSlice(emailLine, LastIndex(emailLine, "<") + 1, LastIndex(emailLine, ">"))
    ELSE <<>>

\* C34: parseExpressiveEmail returns the canonical form of the address of
\* a well-formed line 'X <a@b>' and no error; it returns
\* ErrEmailUnparseable for a line that is no valid address and whose last
\* "<" and last ">" do not enclose, in this order, an address that has a
\* canonical form; and it never returns the empty address without an error.
C34_ParseExpressiveContract ==
    fnCall.op = "parseExpressiveEmail" =>
        LET line == TrimSpace(fnCall.arg)
        IN  /\ \A items \in ItemLists :
                   (Len(items) = 1 /\ fnCall.arg = Line(items))
                   => fnCall.result = [addr |-> normaliseEmail(items[1].addr), err |-> FALSE]
            /\ (normaliseEmail(line) = <<>> /\ normaliseEmail(Enclosed(line)) = <<>>)
                   => fnCall.result.err
            /\ ~(fnCall.result.addr = <<>> /\ ~fnCall.result.err)

\* parseExpressiveEmail refused a line whose brackets hold no address.
C34_BracketsWithoutAddress ==
    /\ fnCall.op = "parseExpressiveEmail"
    /\ fnCall.arg = <<"A", "l", " ", "<", "b", "a", "d", ">">>
    /\ fnCall.result.err

\* C35: a numeric configuration key that the script left unset or set to
\* something that is no number has its default in the Config (IMAPPort 143,
\* SMTPPort 465, PollFrequency 60, MessageFrequency 1), and the two
\* frequencies the loop sleeps for are then not negative.
C35_UnsetKeyHasDefault ==
    fnCall.op = "ConfigFromState" =>
        \A key \in IntKeys :
            fnCall.arg[key].type # "number"
            => /\ fnCall.result[key] = DefaultOf[key]
               /\ fnCall.result[key] >= 0

\* C36: a transaction with a non-empty Permitted list validates a mail
\* only if it has not expired and the mail's Sender is a non-empty canonical
\* address equal to one of its Permitted entries; a mail whose Sender is
\* empty is never validated, whatever the entries of Permitted became when
\* they were normalised.
C36_ValidatedSenderIsPermittedAddress ==
    (fnCall.op = "Validate" /\ fnCall.arg.trans.Permitted # <<>> /\ fnCall.result)
    => /\ ~isExpired(fnCall.arg.trans, fnCall.arg.now)
       /\ fnCall.arg.Sender # <<>>
       /\ normaliseEmail(fnCall.arg.Sender) = fnCall.arg.Sender
       /\ fnCall.arg.Sender \in Elems(fnCall.arg.trans.Permitted)

\* Engine.Close closes the interpreter, the store and the IMAP client in
\* the call that closes Shutdown, one line after the other.
ResourcesClosed == Shutdown

\* C37: the interpreter, the store and the IMAP client are not closed in
\* the middle of a cycle, and once Close has closed them the loop is in no
\* fetch and in no handler call, the steps that read the client, run the
\* script and reach the store.
C37_NoCycleOnClosedResources ==
    ResourcesClosed => pc \notin ({"fetch"} \cup HandlerPoints)

\* C38: once forEachSubscriberRW has returned, the goroutines it started
\* leave one and the same bucket in whatever order they get their turns,
\* also when an entry is moved to the key of another entry of the run.
C38_OneOutcomeForEveryScheduling ==
    (~rw.lock /\ rw.updater # "") => Cardinality(Outcomes(members, rw.pending)) = 1

\* C39: when updater returned an error for an entry, forEachSubscriberRW
\* has returned an error and the bucket is and stays as it was before the
\* call: nothing that was queued for the entries before it is applied.
C39_ErrorLeavesBucketAsBefore ==
    rw.failed => /\ dbCall.op = "forEachSubscriberRW"
                 /\ dbCall.err # "nil"
                 /\ members = rw.before

\* The call made last was a Store, Retrieve, Delete or Keys on an open
\* ListlessKVStore that was not destroyed, while Destroy had been called on
\* the other ListlessKVStore of the same bucket name.
OnTheOtherHandle ==
    /\ kvCall'.op \in {"Store", "Retrieve", "Delete", "Keys"}
    /\ ~handles[kvCall'.handle].destroyed
    /\ \E g \in Handles \ {kvCall'.handle} :
           /\ handles[g].open
           /\ handles[g].destroyed
           /\ handles[g].BucketName = handles[kvCall'.handle].BucketName

\* C40: after Destroy through one of two ListlessKVStores of one bucket
\* name, a Store, Retrieve, Delete or Keys through the other returns and
\* leaves every other bucket and the members as they were, and a KVStore
\* of a name that has no bucket leaves an empty bucket under that name.
C40_OtherHandleSurvivesDestroy ==
    [][/\ OnTheOtherHandle =>
              /\ ~kvCall'.panic
              /\ members' = members
              /\ \A b \in DOMAIN kvstores \ {handles[kvCall'.handle].BucketName} :
                     b \in DOMAIN kvstores' /\ kvstores'[b] = kvstores[b]
       /\ (kvCall'.op = "KVStore" /\ kvCall' # kvCall) =>
              \A b \in DOMAIN kvstores' \ DOMAIN kvstores : kvstores'[b] = EmptyKV]_vars

====
